---- MODULE Spec2Model ----
(***************************************************************************)
(* CJSON: tokenizer, indentation-sensitive parser, AST-to-value converter  *)
(* and encoder.  Text is a sequence of one-character strings.  Each API    *)
(* call (encode, parse, astToJS, ...) is one action; the functions they    *)
(* are made of are operators that follow the TypeScript source.            *)
(***************************************************************************)
EXTENDS Integers, Sequences, FiniteSets, TLC

VARIABLES
  phase,    \* which call ran last
  jsValue,  \* the plain value handed to encode
  text,     \* the CJSON text in hand
  ast,      \* what parse returned: a node, a ParseError or no return at all
  out,      \* what the last call other than encode and parse returned
  shared    \* the objects that outlive a call: the module-level defaults
            \* and the options objects of the caller

vars == <<phase, jsValue, text, ast, out, shared>>

(***************************************************************************)
(* AST nodes (src/src/ast/converter.ts, BaseNode .. ASTNode) and plain     *)
(* values.  The discriminating field is written first in every record.     *)
(* A comment slot that is absent and one that holds the empty string are   *)
(* both <<>>: the source only ever tests the slots for truthiness.         *)
(***************************************************************************)
\* plain JavaScript values: k is the kind; the payload field is named by kind
JNull == [k |-> "null"]
JStr(s) == [k |-> "string", s |-> s]
JBool(b) == [k |-> "boolean", b |-> b]
\* a finite number m * 10^e, m not divisible by 10 (0 is m = 0, e = 0)
JNum(m, e) == [k |-> "number", n |-> [m |-> m, e |-> e]]
\* Object.entries order: a sequence of [key, val]
JObj(entries) == [k |-> "object", entries |-> entries]
JArr(items) == [k |-> "array", items |-> items]
\* the values typeof calls 'undefined', 'function' and 'symbol'
JUndefined == [k |-> "undefined"]
JFunction == [k |-> "function"]
JSymbol == [k |-> "symbol"]

NullNode(line, column) ==
  [type |-> "null", line |-> line, column |-> column,
   leadingComment |-> <<>>, inlineComment |-> <<>>]

PrimitiveNode(primitiveType, val, quoted, line, column) ==
  [type |-> "primitive", primitiveType |-> primitiveType, value |-> val,
   quoted |-> quoted, line |-> line, column |-> column,
   leadingComment |-> <<>>, inlineComment |-> <<>>]

\* properties: the Map in insertion order, a sequence of [key, node]
ObjectNode(properties, line, column) ==
  [type |-> "object", properties |-> properties, line |-> line, column |-> column,
   leadingComment |-> <<>>, inlineComment |-> <<>>]

ArrayNode(items, format, line, column) ==
  [type |-> "array", items |-> items, format |-> format, line |-> line,
   column |-> column, leadingComment |-> <<>>, inlineComment |-> <<>>]


(***************************************************************************)
(* Characters                                                              *)
(***************************************************************************)
NL == "\n"
TAB == "\t"
CR == "\r"
DQ == "\""
SQ == "'"
BS == "\\"
SP == " "

Digits == {"0", "1", "2", "3", "4", "5", "6", "7", "8", "9"}

Letters == {"a", "b", "c", "d", "e", "f", "g", "h", "i", "j", "k", "l", "m",
            "n", "o", "p", "q", "r", "s", "t", "u", "v", "w", "x", "y", "z",
            "A", "B", "C", "D", "E", "F", "G", "H", "I", "J", "K", "L", "M",
            "N", "O", "P", "Q", "R", "S", "T", "U", "V", "W", "X", "Y", "Z"}

DigitVal(c) ==
  CASE c = "0" -> 0 [] c = "1" -> 1 [] c = "2" -> 2 [] c = "3" -> 3
    [] c = "4" -> 4 [] c = "5" -> 5 [] c = "6" -> 6 [] c = "7" -> 7
    [] c = "8" -> 8 [] c = "9" -> 9

DigitChar(n) ==
  CASE n = 0 -> "0" [] n = 1 -> "1" [] n = 2 -> "2" [] n = 3 -> "3"
    [] n = 4 -> "4" [] n = 5 -> "5" [] n = 6 -> "6" [] n = 7 -> "7"
    [] n = 8 -> "8" [] n = 9 -> "9"

IsBlank(c) == c = SP \/ c = TAB

\* s[from..to] as a sequence; empty when from > to
Slice(s, from, to) == IF from > to THEN <<>> ELSE SubSeq(s, from, to)

\* ' '.repeat(n)
Spaces(n) == [x \in 1..n |-> SP]

\* String.prototype.indexOf(c, from) on 1-based positions; 0 when absent
RECURSIVE IndexOf(_, _, _)
IndexOf(s, c, from) ==
  IF from > Len(s) THEN 0
  ELSE IF s[from] = c THEN from
  ELSE IndexOf(s, c, from + 1)

\* first position >= j that holds neither a space nor a tab
RECURSIVE SkipBlanks(_, _)
SkipBlanks(s, j) ==
  IF j <= Len(s) /\ IsBlank(s[j]) THEN SkipBlanks(s, j + 1) ELSE j

(***************************************************************************)
(* Tokenizer (src/src/parser/tokenizer.ts).  Positions i are 1-based here, *)
(* so i - 1 is the source's cursor.                                        *)
(***************************************************************************)
\* columns counted from 0
createTokenZeroBased(type, val, tokenLine, tokenColumn) ==
  [type |-> type, value |-> val, line |-> tokenLine, column |-> tokenColumn - 1]

createToken(type, val, tokenLine, tokenColumn) ==
  [type |-> type, value |-> val, line |-> tokenLine, column |-> tokenColumn]

\* the scanner's variables after a step, or the ParseError it threw
Scan(i, line, column, tokens) ==
  [st |-> "ok", i |-> i, line |-> line, column |-> column, tokens |-> tokens]

\* skipWhitespace of the tokenizer: a run of spaces/tabs.  A line feed met
\* inside the run is consumed and ends the run without any token.
RECURSIVE TokSkipWhitespace(_, _, _, _, _, _, _)
TokSkipWhitespace(input, i, line, column, indentLevel, startColumn, tokens) ==
  IF i <= Len(input) /\ input[i] = SP
    THEN TokSkipWhitespace(input, i + 1, line, column + 1, indentLevel + 1, startColumn, tokens)
  ELSE IF i <= Len(input) /\ input[i] = TAB
    THEN TokSkipWhitespace(input, i + 1, line, column + 1, indentLevel + 2, startColumn, tokens)
  ELSE IF i <= Len(input) /\ input[i] = NL
    THEN Scan(i + 1, line + 1, 1, tokens)
  ELSE Scan(i, line, column,
            IF indentLevel > 0
              THEN Append(tokens, createToken("INDENT", Spaces(indentLevel), line, startColumn))
              ELSE tokens)

\* readQuotedString, entered with i just past the opening quote
RECURSIVE readQuotedString(_, _, _, _, _, _, _)
readQuotedString(input, i, line, column, quote, val, escaped) ==
  IF i > Len(input) THEN [st |-> "err"]
  ELSE
    LET char == input[i]
        nline == IF char = NL THEN line + 1 ELSE line
        ncol == IF char = NL THEN 1 ELSE column + 1
    IN IF escaped
         THEN readQuotedString(input, i + 1, nline, ncol, quote,
                Append(val, CASE char = "n" -> NL [] char = "t" -> TAB
                              [] char = "r" -> CR [] OTHER -> char), FALSE)
       ELSE IF char = BS
         THEN readQuotedString(input, i + 1, nline, ncol, quote, val, TRUE)
       ELSE IF char = quote
         THEN [st |-> "ok", value |-> val, i |-> i + 1, line |-> nline, column |-> ncol]
       ELSE readQuotedString(input, i + 1, nline, ncol, quote, Append(val, char), FALSE)

\* skipKeyDecorators: past any [...] and {...} groups that follow a name
RECURSIVE skipKeyDecorators(_, _)
skipKeyDecorators(input, idx) ==
  IF idx > Len(input) THEN idx
  ELSE IF input[idx] = "[" \/ input[idx] = "{"
    THEN LET closing == IndexOf(input, IF input[idx] = "[" THEN "]" ELSE "}", idx + 1)
         IN IF closing = 0 THEN idx
            ELSE skipKeyDecorators(input, SkipBlanks(input, closing + 1))
  ELSE idx

\* the stop set with the dash added
UnquotedStopAtDash == {":", ",", "[", "]", "#", NL, SP, TAB, "-"}

UnquotedStop == {":", ",", "[", "]", "#", NL, SP, TAB}

\* readUnquotedValue: the position just past the run of ordinary characters
RECURSIVE readUnquotedEnd(_, _)
readUnquotedEnd(input, i) ==
  IF i <= Len(input) /\ input[i] \notin UnquotedStop
    THEN readUnquotedEnd(input, i + 1)
    ELSE i

\* end of a comment: the position of the next line feed, or Len + 1
RECURSIVE CommentEnd(_, _)
CommentEnd(input, i) ==
  IF i <= Len(input) /\ input[i] # NL THEN CommentEnd(input, i + 1) ELSE i

\* the dash look-ahead: is the next non-blank character after i a digit?
DashIsNumber(input, i) ==
  LET j == SkipBlanks(input, i + 1)
  IN j <= Len(input) /\ input[j] \in Digits

\* a token that starts at s and ends just before position e of the same line
Emit(s, e, type, val) ==
  Scan(e, s.line, s.column + (e - s.i), Append(s.tokens, createToken(type, val, s.line, s.column)))

\* an unquoted value that ends before position e: KEY when a colon follows
\* the name and its decorators, else VALUE; an empty value gives no token
ScanUnquoted(input, s, e) ==
  LET j == skipKeyDecorators(input, SkipBlanks(input, e))
  IN IF e = s.i THEN s
     ELSE Emit(s, e, IF j <= Len(input) /\ input[j] = ":" THEN "KEY" ELSE "VALUE",
               Slice(input, s.i, e - 1))

\* a quoted string read by readQuotedString becomes a VALUE token
ScanQuoted(s, r) ==
  IF r.st = "err"
    THEN [st |-> "err", code |-> "INVALID_SYNTAX", line |-> s.line, column |-> s.column,
          suggestion |-> FALSE]
    ELSE Scan(r.i, r.line, r.column,
              Append(s.tokens, createToken("VALUE", r.value, r.line, s.column)))

\* one pass of the main loop of tokenize, at character input[s.i]
TokStep(input, s) ==
  LET char == input[s.i] IN
  IF IsBlank(char)
    THEN TokSkipWhitespace(input, s.i, s.line, s.column, 0, s.column, s.tokens)
  ELSE IF char = NL
    THEN Scan(s.i + 1, s.line + 1, 1,
              Append(s.tokens, createToken("NEWLINE", <<NL>>, s.line, s.column)))
  ELSE IF char = ":" THEN Emit(s, s.i + 1, "COLON", <<":">>)
  ELSE IF char = "," THEN Emit(s, s.i + 1, "COMMA", <<",">>)
  ELSE IF char = "-" /\ ~DashIsNumber(input, s.i)
    THEN Emit(s, SkipBlanks(input, s.i + 1), "DASH", <<"-">>)
  ELSE IF char = "[" THEN Emit(s, s.i + 1, "BRACKET_OPEN", <<"[">>)
  ELSE IF char = "]" THEN Emit(s, s.i + 1, "BRACKET_CLOSE", <<"]">>)
  ELSE IF char = "#"
    THEN LET e == CommentEnd(input, s.i + 1)
         IN Emit(s, e, "COMMENT", Slice(input, s.i + 1, e - 1))
  ELSE IF char = DQ \/ char = SQ
    THEN ScanQuoted(s, readQuotedString(input, s.i + 1, s.line, s.column + 1, char, <<>>, FALSE))
  ELSE ScanUnquoted(input, s, readUnquotedEnd(input, s.i))

\* main loop of tokenize; a pass that leaves the scanner's variables as they
\* were is repeated for ever.  The passes are taken a line at a time:
\* TokLine makes the passes that start on the given line.
RECURSIVE TokLine(_, _, _)
TokPass(input, s, n, line) ==
  IF n = s THEN [st |-> "hang"] ELSE TokLine(input, n, line)

TokLine(input, s, line) ==
  IF s.st # "ok" \/ s.i > Len(input) \/ s.line # line THEN s
  ELSE TokPass(input, s, TokStep(input, s), line)

RECURSIVE TokLoop(_, _)
TokLoop(input, s) ==
  IF s.st # "ok" THEN s
  ELSE IF s.i > Len(input)
    THEN [st |-> "ok", tokens |-> Append(s.tokens, createToken("EOF", <<>>, s.line, s.column))]
  ELSE TokLoop(input, TokLine(input, s, s.line))

tokenize(input) == TokLoop(input, Scan(1, 1, 1, <<>>))

(***************************************************************************)
(* Numeric literals                                                        *)
(***************************************************************************)
RECURSIVE DigitsEnd(_, _)
DigitsEnd(s, i) ==
  IF i <= Len(s) /\ s[i] \in Digits THEN DigitsEnd(s, i + 1) ELSE i

RECURSIVE ToInt(_)
ToInt(ds) ==
  IF ds = <<>> THEN 0
  ELSE 10 * ToInt(SubSeq(ds, 1, Len(ds) - 1)) + DigitVal(ds[Len(ds)])

\* the shared shape -?digits(.digits)?([eE][+-]?digits)? split into its parts:
\* the integer digits are s[a..b-1], the fraction ends before c, the digits
\* of the exponent are s[d..f-1]
NumScanFrac(s, a, b, c) ==
  LET hasFrac == b <= Len(s) /\ s[b] = "."
      hasExp == c <= Len(s) /\ (s[c] = "e" \/ s[c] = "E")
      sgn == hasExp /\ c + 1 <= Len(s) /\ (s[c + 1] = "+" \/ s[c + 1] = "-")
      d == IF hasExp THEN (IF sgn THEN c + 2 ELSE c + 1) ELSE c
      f == IF hasExp THEN DigitsEnd(s, d) ELSE c
  IN [ok |-> b > a /\ (hasFrac => c > b + 1) /\ (hasExp => f > d) /\ f = Len(s) + 1,
      neg |-> a = 2,
      int |-> Slice(s, a, b - 1),
      frac |-> IF hasFrac THEN Slice(s, b + 1, c - 1) ELSE <<>>,
      expNeg |-> sgn /\ s[c + 1] = "-",
      exp |-> IF hasExp THEN Slice(s, d, f - 1) ELSE <<>>]

NumScanInt(s, a, b) ==
  NumScanFrac(s, a, b, IF b <= Len(s) /\ s[b] = "." THEN DigitsEnd(s, b + 1) ELSE b)

NumScanFrom(s, a) == NumScanInt(s, a, DigitsEnd(s, a))

NumScan(s) == NumScanFrom(s, IF Len(s) >= 1 /\ s[1] = "-" THEN 2 ELSE 1)

RECURSIVE Normalize(_, _)
Normalize(m, e) ==
  IF m = 0 THEN [m |-> 0, e |-> 0]
  ELSE IF m % 10 = 0 THEN Normalize(m \div 10, e + 1)
  ELSE [m |-> m, e |-> e]

RECURSIVE NumDigits(_)
NumDigits(n) == IF n < 10 THEN 1 ELSE 1 + NumDigits(n \div 10)

\* Number(text) for a text NumScan accepts, from the parts p of the text
NumberOfParts(p) ==
  LET n == Normalize(ToInt(p.int \o p.frac),
                     (IF p.expNeg THEN 0 - ToInt(p.exp) ELSE ToInt(p.exp)) - Len(p.frac))
  IN [m |-> IF p.neg THEN 0 - n.m ELSE n.m, e |-> n.e]

\* the first four digits of n > 0, a shorter n padded with zeros
RECURSIVE LeadingDigits(_)
LeadingDigits(n) ==
  IF n >= 10000 THEN LeadingDigits(n \div 10)
  ELSE IF n < 1000 THEN LeadingDigits(n * 10)
  ELSE n

\* isFinite(Number(text)): the largest double is 1.7976931348623157e308; the
\* comparison is made on the first four digits
MaxDecimalExponent == 308
IsFiniteNumber(n) ==
  \/ n.m = 0
  \/ NumDigits(IF n.m < 0 THEN 0 - n.m ELSE n.m) + n.e <= MaxDecimalExponent
  \/ /\ NumDigits(IF n.m < 0 THEN 0 - n.m ELSE n.m) + n.e = MaxDecimalExponent + 1
     /\ LeadingDigits(IF n.m < 0 THEN 0 - n.m ELSE n.m) <= 1797

\* parseNumber (parser.ts): the number, or null; p is the match of the pattern
NumberOfScan(p) ==
  IF p.ok /\ IsFiniteNumber(NumberOfParts(p))
    THEN [isNull |-> FALSE, num |-> NumberOfParts(p)]
    ELSE [isNull |-> TRUE, num |-> [m |-> 0, e |-> 0]]

parseNumber(s) == NumberOfScan(NumScan(s))

(***************************************************************************)
(* Parser (src/src/parser/parser.ts).  The ParseContext is c = [i, line,   *)
(* column] over the token list toks; i is 1-based.  A function that can    *)
(* throw returns [st |-> "ok", node, c], [st |-> "err", code, line,        *)
(* column] for a ParseError, or [st |-> "hang", ...] when a loop of it     *)
(* repeats with the context unchanged and so never returns.                *)
(***************************************************************************)
NoToken == [type |-> "NONE", value |-> <<>>, line |-> 0, column |-> 0]

\* context.tokens[idx], or null past the end
Tok(toks, idx) == IF idx >= 1 /\ idx <= Len(toks) THEN toks[idx] ELSE NoToken

At(c, idx) == [c EXCEPT !.i = idx]

Ok(node, c) == [st |-> "ok", node |-> node, c |-> c]
\* a ParseError; every throw of the parser that names a code other than the
\* default INVALID_SYNTAX also passes a suggestion
Err(code, line, column) ==
  [st |-> "err", code |-> code, line |-> line, column |-> column,
   suggestion |-> code # "INVALID_SYNTAX"]
Hang(c) ==
  [st |-> "hang", code |-> "NO_RETURN", line |-> c.line, column |-> c.column,
   suggestion |-> FALSE]

peek(toks, c) == Tok(toks, c.i)

\* index of the first token at or after idx that is neither INDENT nor NEWLINE
RECURSIVE SkipWsIdx(_, _)
SkipWsIdx(toks, idx) ==
  IF idx <= Len(toks) /\ toks[idx].type \in {"INDENT", "NEWLINE"}
    THEN SkipWsIdx(toks, idx + 1)
    ELSE idx

skipWhitespace(toks, c) == At(c, SkipWsIdx(toks, c.i))

\* index of the first token at or after idx that is not INDENT
RECURSIVE SkipIndentIdx(_, _)
SkipIndentIdx(toks, idx) ==
  IF idx <= Len(toks) /\ toks[idx].type = "INDENT"
    THEN SkipIndentIdx(toks, idx + 1)
    ELSE idx

skipInlineSeparators(toks, c) == At(c, SkipIndentIdx(toks, c.i))

\* consume: whitespace is skipped even when the expected token is not there
consume(toks, c, expectedType) ==
  LET c1 == skipWhitespace(toks, c)
      token == Tok(toks, c1.i)
  IN IF token.type = expectedType
       THEN [tok |-> token, c |-> [i |-> c1.i + 1, line |-> token.line, column |-> token.column]]
       ELSE [tok |-> NoToken, c |-> c1]

\* isEOF skips whitespace as a side effect
isEOF(toks, c) ==
  [eof |-> Tok(toks, SkipWsIdx(toks, c.i)).type \in {"NONE", "EOF"},
   c |-> skipWhitespace(toks, c)]

\* indentation of the upcoming line: INDENT widths summed, reset by NEWLINE
\* (getCurrentIndent, measureIndentation and the look-ahead of the loops)
RECURSIVE LineIndent(_, _, _)
LineIndent(toks, idx, indent) ==
  IF idx > Len(toks) THEN [indent |-> indent, idx |-> idx]
  ELSE IF toks[idx].type = "NEWLINE" THEN LineIndent(toks, idx + 1, 0)
  ELSE IF toks[idx].type = "INDENT" THEN LineIndent(toks, idx + 1, indent + Len(toks[idx].value))
  ELSE [indent |-> indent, idx |-> idx]

getCurrentIndent(toks, c) == LineIndent(toks, c.i, 0).indent

measureIndentation(toks, c) == LineIndent(toks, c.i, 0).indent

\* INDENT widths summed up to the first token that is not INDENT
RECURSIVE IndentRun(_, _, _)
IndentRun(toks, idx, indent) ==
  IF idx <= Len(toks) /\ toks[idx].type = "INDENT"
    THEN IndentRun(toks, idx + 1, indent + Len(toks[idx].value))
    ELSE [indent |-> indent, idx |-> idx]

WhitespaceChars == {SP, TAB, NL, CR}

RECURSIVE TrimStart(_)
TrimStart(s) ==
  IF s # <<>> /\ s[1] \in WhitespaceChars THEN TrimStart(Tail(s)) ELSE s

RECURSIVE TrimEnd(_)
TrimEnd(s) ==
  IF s # <<>> /\ s[Len(s)] \in WhitespaceChars
    THEN TrimEnd(SubSeq(s, 1, Len(s) - 1))
    ELSE s

\* String.prototype.trim
Trim(s) == TrimEnd(TrimStart(s))

\* String.prototype.split(sep) for a one-character separator
RECURSIVE Split(_, _)
Split(s, sep) ==
  LET p == IndexOf(s, sep, 1)
  IN IF p = 0 THEN <<s>>
     ELSE <<Slice(s, 1, p - 1)>> \o Split(Slice(s, p + 1, Len(s)), sep)

\* Array.prototype.join(sep) for a sequence of texts
RECURSIVE Join(_, _)
Join(parts, sep) ==
  IF parts = <<>> THEN <<>>
  ELSE IF Len(parts) = 1 THEN parts[1]
  ELSE parts[1] \o sep \o Join(Tail(parts), sep)

RECURSIVE CollectLeadingLoop(_, _, _)
CollectLeadingLoop(toks, idx, comments) ==
  IF idx > Len(toks) THEN [idx |-> idx, comments |-> comments]
  ELSE IF toks[idx].type \in {"INDENT", "NEWLINE"}
    THEN CollectLeadingLoop(toks, idx + 1, comments)
  ELSE IF toks[idx].type = "COMMENT"
    THEN LET j == SkipIndentIdx(toks, idx + 1)
             got == Append(comments, toks[idx].value)
         IN IF Tok(toks, j).type = "NEWLINE" THEN CollectLeadingLoop(toks, j + 1, got)
            ELSE IF Tok(toks, j).type = "COMMENT" THEN CollectLeadingLoop(toks, j, got)
            ELSE [idx |-> j, comments |-> got]
  ELSE [idx |-> idx, comments |-> comments]

\* collectLeadingComments: the index moves only when a comment was found
collectLeadingComments(toks, c) ==
  LET r == CollectLeadingLoop(toks, c.i, <<>>)
  IN IF Len(r.comments) > 0
       THEN [comment |-> Join(r.comments, <<NL>>), c |-> At(c, r.idx)]
       ELSE [comment |-> <<>>, c |-> c]

collectInlineComment(toks, c) ==
  LET idx == SkipIndentIdx(toks, c.i)
  IN IF Tok(toks, idx).type = "COMMENT"
       THEN [comment |-> toks[idx].value, c |-> At(c, idx + 1)]
       ELSE [comment |-> <<>>, c |-> c]

tokenToLiteral(token) ==
  CASE token.type = "BRACKET_OPEN" -> <<"[">>
    [] token.type = "BRACKET_CLOSE" -> <<"]">>
    [] token.type = "COMMA" -> <<",">>
    [] OTHER -> token.value

RECURSIVE KeySuffixLoop(_, _, _)
KeySuffixLoop(toks, c, parts) ==
  IF c.i > Len(toks) THEN [suffix |-> <<>>, colon |-> FALSE, c |-> c]
  ELSE LET token == toks[c.i] IN
    IF token.type = "COLON"
      THEN [suffix |-> Trim(parts), colon |-> TRUE, c |-> At(c, c.i + 1)]
    ELSE IF token.type = "INDENT" THEN KeySuffixLoop(toks, At(c, c.i + 1), parts)
    ELSE IF token.type \in {"NEWLINE", "EOF"} THEN [suffix |-> <<>>, colon |-> FALSE, c |-> c]
    ELSE KeySuffixLoop(toks, At(c, c.i + 1), parts \o tokenToLiteral(token))

collectKeySuffix(toks, c) == KeySuffixLoop(toks, c, <<>>)

\* does s[p..] read \[\d+\](\{[^}]*\})?$
HeaderTailAt(s, p) ==
  LET q == DigitsEnd(s, p + 1)
  IN /\ p <= Len(s) /\ s[p] = "["
     /\ q > p + 1
     /\ q <= Len(s) /\ s[q] = "]"
     /\ \/ q = Len(s)
        \/ /\ q + 2 <= Len(s)
           /\ s[q + 1] = "{"
           /\ IndexOf(s, "}", q + 2) = Len(s)

\* the header whose bracket opens at position p of fullKey and closes at q
HeaderParts(fullKey, p, q) ==
  LET key == Trim(Slice(fullKey, 1, p - 1))
      fieldsSegment == IF q = Len(fullKey) THEN <<>> ELSE Slice(fullKey, q + 2, Len(fullKey) - 1)
      parts == Split(fieldsSegment, ",")
  IN [isNull |-> key = <<>>,
      key |-> key,
      length |-> IF key = <<>> THEN 0 ELSE ToInt(Slice(fullKey, p + 1, q - 1)),
      fields |-> IF key = <<>> \/ fieldsSegment = <<>> THEN <<>>
                 ELSE SelectSeq([x \in 1..Len(parts) |-> Trim(parts[x])],
                                LAMBDA f : Len(f) > 0)]

\* the match of /^(.+?)\[(\d+)\](\{([^}]*)\})?$/ starts its bracket at the
\* least position of starts
HeaderAt(fullKey, starts) ==
  IF starts = {} THEN [isNull |-> TRUE, key |-> <<>>, length |-> 0, fields |-> <<>>]
  ELSE HeaderParts(fullKey, CHOOSE x \in starts : \A y \in starts : x <= y,
                   DigitsEnd(fullKey, (CHOOSE x \in starts : \A y \in starts : x <= y) + 1))

\* parseCompactArrayHeader: name[N] or name[N]{f1, f2}; absent fields are <<>>
HeaderOfKey(fullKey) ==
  HeaderAt(fullKey, {p \in 2..Len(fullKey) :
                       /\ HeaderTailAt(fullKey, p)
                       /\ \A x \in 1..(p - 1) : fullKey[x] \notin {NL, CR}})

parseCompactArrayHeader(baseKey, suffix) == HeaderOfKey(Trim(baseKey \o suffix))

\* the text of a primitive: the first VALUE and every VALUE that follows it
\* on the line, joined by single spaces
RECURSIVE CombineValues(_, _, _)
CombineValues(toks, idx, v) ==
  IF idx > Len(toks) THEN [value |-> v, idx |-> idx]
  ELSE IF toks[idx].type = "INDENT" THEN CombineValues(toks, idx + 1, v)
  ELSE IF toks[idx].type = "VALUE"
    THEN CombineValues(toks, idx + 1, v \o <<SP>> \o toks[idx].value)
  ELSE [value |-> v, idx |-> idx]

\* the reserved words matched without regard to letter case
PrimitiveOfAnyCase(v, numValue, line, column) ==
  IF v \in {<<"n", "u", "l", "l">>, <<"N", "U", "L", "L">>} THEN NullNode(line, column)
  ELSE IF v \in {<<"t", "r", "u", "e">>, <<"T", "r", "u", "e">>,
                 <<"f", "a", "l", "s", "e">>}
    THEN PrimitiveNode("boolean", v # <<"f", "a", "l", "s", "e">>, FALSE, line, column)
  ELSE IF ~numValue.isNull
    THEN PrimitiveNode("number", numValue.num, FALSE, line, column)
  ELSE PrimitiveNode("string", v, FALSE, line, column)

\* null, true/false, a number, else a string
PrimitiveOf(v, numValue, line, column) ==
  IF v = <<"n", "u", "l", "l">> THEN NullNode(line, column)
  ELSE IF v = <<"t", "r", "u", "e">> \/ v = <<"f", "a", "l", "s", "e">>
    THEN PrimitiveNode("boolean", v = <<"t", "r", "u", "e">>, FALSE, line, column)
  ELSE IF ~numValue.isNull
    THEN PrimitiveNode("number", numValue.num, FALSE, line, column)
  ELSE PrimitiveNode("string", v, FALSE, line, column)

parsePrimitive(toks, c) ==
  LET first == consume(toks, c, "VALUE")
      comb == CombineValues(toks, first.c.i, first.tok.value)
      ic == collectInlineComment(toks, At(first.c, comb.idx))
  IN IF first.tok.type = "NONE" THEN Err("INVALID_SYNTAX", first.c.line, first.c.column)
     ELSE Ok([PrimitiveOf(comb.value, parseNumber(comb.value), first.tok.line,
                          first.tok.column) EXCEPT !.inlineComment = ic.comment], ic.c)

\* Map.prototype.set on the ordered property list
MapSet(properties, key, node) ==
  IF \E x \in 1..Len(properties) : properties[x].key = key
    THEN [x \in 1..Len(properties) |->
            IF properties[x].key = key THEN [key |-> key, value |-> node]
            ELSE properties[x]]
    ELSE Append(properties, [key |-> key, value |-> node])

MapHas(properties, key) == \E x \in 1..Len(properties) : properties[x].key = key

\* if (leadingComment) node.leadingComment = leadingComment
WithLeading(node, comment) ==
  IF comment # <<>> THEN [node EXCEPT !.leadingComment = comment] ELSE node

IsEnd(token) == token.type \in {"NONE", "EOF"}

RECURSIVE parseValue(_, _)
RECURSIVE parseArray(_, _)
RECURSIVE ArrayLoop(_, _, _, _)
RECURSIVE parseArrayItem(_, _)
RECURSIVE parseObject(_, _)
RECURSIVE parseObjectWithIndent(_, _, _, _)
RECURSIVE ObjLoop(_, _, _)
RECURSIVE parseMultiLineArray(_, _, _)
RECURSIVE MultiLoop(_, _, _)
RECURSIVE parseCompactArrayValue(_, _, _, _, _)
RECURSIVE parseCompactInlineArray(_, _, _, _)
RECURSIVE InlineLoop(_, _, _, _, _)
RECURSIVE parseCompactArrayRows(_, _, _, _, _)
RECURSIVE RowsLoop(_, _, _, _, _, _)
RECURSIVE parseCompactRow(_, _, _)
RECURSIVE RowLoop(_, _, _, _, _)

parseValue(toks, c) ==
  LET c1 == skipWhitespace(toks, c)
      token == peek(toks, c1)
  IN IF IsEnd(token) THEN Err("UNEXPECTED_EOF", c1.line, c1.column)
     ELSE IF token.type = "COMMENT"
       THEN parseValue(toks, skipWhitespace(toks, consume(toks, c1, "COMMENT").c))
     ELSE IF token.type = "BRACKET_OPEN" THEN parseArray(toks, c1)
     ELSE IF token.type = "VALUE" THEN parsePrimitive(toks, c1)
     ELSE IF token.type = "DASH" THEN parseArrayItem(toks, c1)
     ELSE IF token.type = "KEY" THEN parseObject(toks, c1)
     ELSE Err("UNEXPECTED_TOKEN", token.line, token.column)

parseArrayItem(toks, c) ==
  LET d == consume(toks, c, "DASH")
  IN IF d.tok.type = "NONE" THEN Err("INVALID_SYNTAX", d.c.line, d.c.column)
     ELSE parseValue(toks, skipWhitespace(toks, d.c))

parseObject(toks, c) ==
  parseObjectWithIndent(toks, c, getCurrentIndent(toks, c), FALSE)

\* items.push(parseValue(context)), r being what parseValue returned, and
\* what follows the item: a comma, the closing bracket, or an error
ArrayItem(toks, r, items, startToken) ==
  IF r.st # "ok" THEN r
  ELSE LET c2 == skipWhitespace(toks, r.c)
           nxt == peek(toks, c2)
       IN IF nxt.type = "COMMA"
            THEN ArrayLoop(toks, skipWhitespace(toks, consume(toks, c2, "COMMA").c),
                           Append(items, r.node), startToken)
          ELSE IF nxt.type # "BRACKET_CLOSE"
            THEN Err("INVALID_SYNTAX",
                     IF nxt.line # 0 THEN nxt.line ELSE c2.line,
                     IF nxt.column # 0 THEN nxt.column ELSE c2.column)
          ELSE ArrayLoop(toks, c2, Append(items, r.node), startToken)

\* while (!isEOF(context)) of parseArray
ArrayLoop(toks, c, items, startToken) ==
  LET e == isEOF(toks, c)
  IN IF e.eof
       THEN Ok(ArrayNode(items, "inline", startToken.line, startToken.column), e.c)
     ELSE IF peek(toks, e.c).type = "BRACKET_CLOSE"
       THEN Ok(ArrayNode(items, "inline", startToken.line, startToken.column),
               consume(toks, e.c, "BRACKET_CLOSE").c)
     ELSE ArrayItem(toks, parseValue(toks, e.c), items, startToken)

parseArray(toks, c) ==
  LET s == consume(toks, c, "BRACKET_OPEN")
      c1 == skipWhitespace(toks, s.c)
  IN IF s.tok.type = "NONE" THEN Err("UNEXPECTED_TOKEN", s.c.line, s.c.column)
     ELSE IF peek(toks, c1).type = "BRACKET_CLOSE"
       THEN Ok(ArrayNode(<<>>, "inline", s.tok.line, s.tok.column),
               consume(toks, c1, "BRACKET_CLOSE").c)
     ELSE ArrayLoop(toks, c1, <<>>, s.tok)

\* the end of parseObjectWithIndent, reached by every break of its loop
ObjFinish(properties, startToken, c) ==
  IF startToken.type = "NONE" THEN Err("MISSING_KEY", c.line, c.column)
  ELSE Ok(ObjectNode(properties, startToken.line, startToken.column), c)

\* while (peek(context)?.type === COMMENT) after the colon: the comment and
\* the INDENT tokens after it, never a NEWLINE
RECURSIVE SkipCommentsAfterColon(_, _)
SkipCommentsAfterColon(toks, c) ==
  IF peek(toks, c).type = "COMMENT"
    THEN SkipCommentsAfterColon(toks,
           skipInlineSeparators(toks, consume(toks, c, "COMMENT").c))
    ELSE c

\* while (afterSkipToken?.type === COMMENT) after an inline value.  The
\* condition reads a constant, so the loop ends only through its own break;
\* an iteration that leaves the context as it found it repeats for ever.
\* c is the context at the top of the pass, c1 the one after the comment and
\* the whitespace behind it.
RECURSIVE CommentLoop(_, _)
CommentLoop(toks, c) ==
  LET c1 == skipWhitespace(toks, consume(toks, c, "COMMENT").c)
      nextToken == peek(toks, c1)
      c2 == IF nextToken.type = "NEWLINE" THEN At(c1, c1.i + 1) ELSE c1
  IN IF nextToken.type # "NEWLINE" /\ IsEnd(nextToken) THEN [hang |-> FALSE, c |-> c1]
     ELSE IF c2 = c THEN [hang |-> TRUE, c |-> c2]
     ELSE CommentLoop(toks, c2)

(***************************************************************************)
(* parseObjectWithIndent.  o holds the variables of the function that live *)
(* across passes of its loop: currentIndent, allowInlineStart,             *)
(* inlineStartUsed, properties, startToken.  p holds those of the pair     *)
(* being read: key (propertyKey), leadingComment, keyToken.                *)
(***************************************************************************)
\* properties.set(propertyKey, node) and on to the next pass
ObjAgain(toks, o, p, c, node) ==
  ObjLoop(toks, c,
          [o EXCEPT !.properties = MapSet(@, p.key, WithLeading(node, p.leadingComment))])

\* a nested value parsed and then left out of the properties
ObjSetDropped(toks, o, p, r) == IF r.st # "ok" THEN r ELSE ObjLoop(toks, r.c, o)

\* a nested value parsed by another function, r being what it returned
ObjSet(toks, o, p, r) == IF r.st # "ok" THEN r ELSE ObjAgain(toks, o, p, r.c, r.node)

\* an inline value, r being what its parse returned, and what follows it on
\* the line
ObjInlineValue(toks, o, p, r) ==
  IF r.st # "ok" THEN r
  ELSE LET o1 == [o EXCEPT !.properties =
                              MapSet(@, p.key, WithLeading(r.node, p.leadingComment))]
           afterValueToken == Tok(toks, r.c.i)
           c5 == skipWhitespace(toks, r.c)
           cl == IF Tok(toks, c5.i).type = "COMMENT" THEN CommentLoop(toks, c5)
                 ELSE [hang |-> FALSE, c |-> c5]
           finalToken == peek(toks, cl.c)
       IN IF afterValueToken.type = "NEWLINE" THEN ObjLoop(toks, At(r.c, r.c.i + 1), o1)
          ELSE IF afterValueToken.type = "EOF" THEN ObjFinish(o1.properties, o1.startToken, r.c)
          ELSE IF cl.hang THEN Hang(cl.c)
          ELSE IF finalToken.type = "NEWLINE" THEN ObjLoop(toks, At(cl.c, cl.c.i + 1), o1)
          ELSE IF finalToken.type = "EOF" THEN ObjFinish(o1.properties, o1.startToken, cl.c)
          ELSE ObjLoop(toks, cl.c, o1)

\* the value of an ordinary key, c3 being the context after the colon.  A
\* NEWLINE after the colon opens a nested block, a dash array or an empty
\* object; otherwise the value starts on the line of the key.
ObjValue(toks, o, p, c3) ==
  LET nextTokenIndex == SkipIndentIdx(toks, c3.i)
      nextToken == Tok(toks, nextTokenIndex)
      ir == IndentRun(toks, nextTokenIndex + 1, 0)
      emptyObj == ObjectNode(<<>>, nextToken.line, nextToken.column)
      c4 == At(c3, IF nextToken.type = "NEWLINE" THEN nextTokenIndex + 1 ELSE nextTokenIndex)
      valueToken == peek(toks, c4)
      branch == IF nextToken.type = "NEWLINE"
                  THEN IF ir.indent > o.currentIndent
                         THEN IF Tok(toks, ir.idx).type = "DASH" THEN "dashArray"
                              ELSE IF Tok(toks, c4.i).type \in {"INDENT", "KEY"}
                                THEN "nestedObject"
                              ELSE "emptyObject"
                         ELSE "emptyObject"
                ELSE IF IsEnd(valueToken) THEN "noValue"
                ELSE "inlineValue"
  IN CASE branch = "dashArray" ->
            ObjSet(toks, o, p, parseMultiLineArray(toks, c4, ir.indent))
       [] branch = "nestedObject" ->
            ObjSet(toks, o, p, parseObjectWithIndent(toks, c4, ir.indent, FALSE))
       [] branch = "emptyObject" -> ObjAgain(toks, o, p, c4, emptyObj)
       [] branch = "noValue" ->
            ObjAgain(toks, o, p, c4, ObjectNode(<<>>, p.keyToken.line, p.keyToken.column))
       [] branch = "inlineValue" ->
            ObjInlineValue(toks, o, p,
              IF valueToken.type = "VALUE" THEN parsePrimitive(toks, c4)
              ELSE IF valueToken.type = "BRACKET_OPEN" THEN parseArray(toks, c4)
              ELSE parseValue(toks, c4))

\* the key/value pair of one pass: the key, its suffix and colon, then a
\* compact array or an ordinary value
ObjKey(toks, c, o, leadingComment) ==
  LET k == consume(toks, c, "KEY")
      ks == collectKeySuffix(toks, k.c)
      compactHeader == parseCompactArrayHeader(k.tok.value, ks.suffix)
      c3 == SkipCommentsAfterColon(toks, ks.c)
      branch == IF k.tok.type = "NONE" THEN "noKey"
                ELSE IF ~ks.colon THEN "noColon"
                ELSE IF ~compactHeader.isNull THEN "compactArray"
                ELSE "value"
  IN CASE branch = "noKey" -> ObjFinish(o.properties, o.startToken, k.c)
       [] branch = "noColon" -> Err("MISSING_COLON", k.tok.line, k.tok.column)
       [] branch = "compactArray" ->
            ObjSet(toks, o,
                   [key |-> compactHeader.key, leadingComment |-> leadingComment,
                    keyToken |-> k.tok],
                   parseCompactArrayValue(toks, c3, compactHeader, o.currentIndent, k.tok))
       [] branch = "value" ->
            ObjValue(toks, o,
                     [key |-> k.tok.value, leadingComment |-> leadingComment,
                      keyToken |-> k.tok],
                     c3)

\* one pass of the while (true) of parseObjectWithIndent: the dedent test,
\* the leading comments, and the token after them, which decides the pass
ObjLoop(toks, c, o) ==
  LET lineIndent == LineIndent(toks, c.i, 0).indent
      dedent == lineIndent < o.currentIndent
      inlineStart == dedent /\ o.allowInlineStart /\ ~o.inlineStartUsed /\ o.properties = <<>>
      o1 == [o EXCEPT !.inlineStartUsed = @ \/ inlineStart]
      lc == collectLeadingComments(toks, skipWhitespace(toks, c))
      token == peek(toks, lc.c)
      branch == IF IsEnd(peek(toks, c)) THEN "end"
                ELSE IF dedent /\ ~inlineStart THEN "dedent"
                ELSE IF IsEnd(token) THEN "endAfterComments"
                ELSE IF token.type = "KEY" THEN "key"
                ELSE IF token.type = "NEWLINE" THEN "newline"
                ELSE "other"
  IN CASE branch \in {"end", "dedent"} -> ObjFinish(o.properties, o.startToken, c)
       [] branch \in {"endAfterComments", "other"} ->
            ObjFinish(o1.properties, o1.startToken, lc.c)
       [] branch = "key" ->
            ObjKey(toks, lc.c,
                   [o1 EXCEPT !.startToken = IF @.type = "NONE" THEN token ELSE @],
                   lc.comment)
       [] branch = "newline" -> ObjLoop(toks, At(lc.c, lc.c.i + 1), o1)

parseObjectWithIndent(toks, c, baseIndent, allowInlineStart) ==
  ObjLoop(toks, c,
          [currentIndent |-> baseIndent, allowInlineStart |-> allowInlineStart,
           inlineStartUsed |-> FALSE, properties |-> <<>>, startToken |-> NoToken])

(***************************************************************************)
(* parseMultiLineArray.  m holds baseIndent, items and startToken.         *)
(***************************************************************************)
MultiFinish(m, c) ==
  IF m.startToken.type = "NONE" THEN Err("UNEXPECTED_TOKEN", c.line, c.column)
  ELSE Ok(ArrayNode(m.items, "multiline", m.startToken.line, m.startToken.column), c)

\* items.push(item), r being what the parse of the item returned, and the
\* token after the item
MultiItem(toks, m, r) ==
  IF r.st # "ok" THEN r
  ELSE LET m1 == [m EXCEPT !.items = Append(@, r.node)]
           afterItemToken == peek(toks, r.c)
       IN IF afterItemToken.type = "NEWLINE" THEN MultiLoop(toks, At(r.c, r.c.i + 1), m1)
          ELSE IF afterItemToken.type = "EOF"
            THEN Ok(ArrayNode(m1.items, "multiline", m1.startToken.line,
                              m1.startToken.column), r.c)
          ELSE MultiLoop(toks, r.c, m1)

\* one pass of the while (true) of parseMultiLineArray; c3 is the context
\* behind the dash
MultiLoop(toks, c, m) ==
  LET lineIndent == LineIndent(toks, c.i, 0).indent
      c1 == skipWhitespace(toks, c)
      token == peek(toks, c1)
      c3 == skipWhitespace(toks, consume(toks, c1, "DASH").c)
      afterDashToken == peek(toks, c3)
      emptyItem == ObjectNode(<<>>, token.line, token.column)
  IN IF IsEnd(peek(toks, c)) THEN MultiFinish(m, c)
     ELSE IF lineIndent < m.baseIndent THEN MultiFinish(m, c)
     ELSE IF IsEnd(token) THEN MultiFinish(m, c1)
     ELSE IF lineIndent = m.baseIndent /\ token.type = "DASH"
       THEN MultiItem(toks, [m EXCEPT !.startToken = IF @.type = "NONE" THEN token ELSE @],
              IF afterDashToken.type = "NONE" THEN Ok(emptyItem, c3)
              ELSE IF afterDashToken.type = "NEWLINE" THEN Ok(emptyItem, At(c3, c3.i + 1))
              ELSE IF afterDashToken.type = "KEY"
                THEN parseObjectWithIndent(toks, c3, m.baseIndent + 2, TRUE)
              ELSE parseValue(toks, c3))
     ELSE IF token.type = "NEWLINE" THEN MultiLoop(toks, At(c1, c1.i + 1), m)
     ELSE MultiFinish(m, c1)

parseMultiLineArray(toks, c, baseIndent) ==
  MultiLoop(toks, c, [baseIndent |-> baseIndent, items |-> <<>>, startToken |-> NoToken])

(***************************************************************************)
(* Compact arrays: key[N]: a, b and key[N]{f1, f2}: followed by rows       *)
(***************************************************************************)
parseCompactArrayValue(toks, c, header, currentIndent, startToken) ==
  LET nextToken == peek(toks, c)
      rowIndent == measureIndentation(toks, At(c, c.i + 1))
  IN IF nextToken.type = "NEWLINE"
       THEN IF rowIndent <= currentIndent
              THEN Err("INVALID_SYNTAX", nextToken.line, nextToken.column)
              ELSE parseCompactArrayRows(toks, At(c, c.i + 1), header, rowIndent, startToken)
       ELSE parseCompactInlineArray(toks, c, header, startToken)

\* the end of parseCompactInlineArray: a NEWLINE is consumed, the length checked
InlineDone(toks, c, header, startToken, items) ==
  IF Len(items) # header.length
    THEN Err("INVALID_SYNTAX", startToken.line, startToken.column)
    ELSE Ok(ArrayNode(items, "compact", startToken.line, startToken.column),
            IF peek(toks, c).type = "NEWLINE" THEN At(c, c.i + 1) ELSE c)

\* items.push(parseValue(context)), r being what parseValue returned, and
\* the comma that may follow
InlineItem(toks, r, header, startToken, items) ==
  IF r.st # "ok" THEN r
  ELSE LET c2 == skipWhitespace(toks, r.c)
       IN IF peek(toks, c2).type = "COMMA"
            THEN InlineLoop(toks, At(c2, c2.i + 1), header, startToken, Append(items, r.node))
            ELSE InlineDone(toks, c2, header, startToken, Append(items, r.node))

\* while (!isEndOfInline(context)) of parseCompactInlineArray
InlineLoop(toks, c, header, startToken, items) ==
  LET c1 == skipWhitespace(toks, c)
      nextToken == peek(toks, c1)
  IN IF IsEnd(peek(toks, c)) THEN InlineDone(toks, c, header, startToken, items)
     ELSE IF IsEnd(nextToken) \/ nextToken.type = "NEWLINE"
       THEN InlineDone(toks, c1, header, startToken, items)
     ELSE InlineItem(toks, parseValue(toks, c1), header, startToken, items)

parseCompactInlineArray(toks, c, header, startToken) ==
  IF Len(header.fields) > 0
    THEN Err("INVALID_SYNTAX", startToken.line, startToken.column)
    ELSE InlineLoop(toks, c, header, startToken, <<>>)

\* the end of parseCompactArrayRows: the length check
RowsFinish(c, header, startToken, items) ==
  IF Len(items) # header.length
    THEN Err("INVALID_SYNTAX", startToken.line, startToken.column)
    ELSE Ok(ArrayNode(items, "compact", startToken.line, startToken.column), c)

RowsItem(toks, r, header, rowIndent, startToken, items) ==
  IF r.st # "ok" THEN r
  ELSE RowsLoop(toks, r.c, header, rowIndent, startToken, Append(items, r.node))

\* while (items.length < header.length) of parseCompactArrayRows; ir is the
\* indentation of the line, read ahead
RowsLoop(toks, c, header, rowIndent, startToken, items) ==
  LET token == peek(toks, c)
      ir == IndentRun(toks, c.i, 0)
  IN IF IsEnd(token) \/ Len(items) >= header.length
       THEN RowsFinish(c, header, startToken, items)
     ELSE IF token.type = "NEWLINE"
       THEN RowsLoop(toks, At(c, c.i + 1), header, rowIndent, startToken, items)
     ELSE IF ir.indent < rowIndent THEN RowsFinish(c, header, startToken, items)
     ELSE IF ir.indent > rowIndent THEN Err("INVALID_SYNTAX", token.line, token.column)
     ELSE RowsItem(toks, parseCompactRow(toks, At(c, ir.idx), header),
                   header, rowIndent, startToken, items)

parseCompactArrayRows(toks, c, header, rowIndent, startToken) ==
  RowsLoop(toks, c, header, rowIndent, startToken, <<>>)

\* the end of parseCompactRow: a row has a property, and every declared field
RowFinish(c, header, properties, startToken) ==
  IF properties = <<>> THEN Err("INVALID_SYNTAX", c.line, c.column)
  ELSE IF \E x \in 1..Len(header.fields) : ~MapHas(properties, header.fields[x])
    THEN Err("INVALID_SYNTAX",
             IF startToken.type = "NONE" THEN c.line ELSE startToken.line,
             IF startToken.type = "NONE" THEN c.column ELSE startToken.column)
  ELSE Ok(ObjectNode(properties,
                     IF startToken.type = "NONE" THEN c.line ELSE startToken.line,
                     IF startToken.type = "NONE" THEN c.column ELSE startToken.column), c)

\* properties.set(keyToken.value, value), r being what parseValue returned,
\* and the comma or NEWLINE that may follow
RowValue(toks, keyToken, r, header, properties, startToken) ==
  IF r.st # "ok" THEN r
  ELSE LET c3 == skipInlineSeparators(toks, r.c)
           nextToken == peek(toks, c3)
           props == MapSet(properties, keyToken.value, r.node)
       IN IF nextToken.type = "COMMA"
            THEN RowLoop(toks, At(c3, c3.i + 1), header, props, startToken)
          ELSE IF nextToken.type = "NEWLINE"
            THEN RowFinish(At(c3, c3.i + 1), header, props, startToken)
          ELSE RowFinish(c3, header, props, startToken)

\* while (!isEndOfRow(context)) of parseCompactRow
RowLoop(toks, c, header, properties, startToken) ==
  LET k == consume(toks, skipInlineSeparators(toks, c), "KEY")
      col == consume(toks, k.c, "COLON")
  IN IF IsEnd(peek(toks, c)) THEN RowFinish(c, header, properties, startToken)
     ELSE IF k.tok.type = "NONE" THEN RowFinish(k.c, header, properties, startToken)
     ELSE IF col.tok.type = "NONE" THEN Err("INVALID_SYNTAX", k.tok.line, k.tok.column)
     ELSE RowValue(toks, k.tok, parseValue(toks, skipInlineSeparators(toks, col.c)),
                   header, properties,
                   IF startToken.type = "NONE" THEN k.tok ELSE startToken)

parseCompactRow(toks, c, header) == RowLoop(toks, c, header, <<>>, NoToken)

\* a parse that leaves the leading comments to parseValue
SkipLeadingCommentsNot(toks, c) == c

\* parse(input): tokenize, skip leading whitespace and comments, then the root
RECURSIVE SkipLeadingComments(_, _)
SkipLeadingComments(toks, c) ==
  IF peek(toks, c).type = "COMMENT"
    THEN SkipLeadingComments(toks, skipWhitespace(toks, consume(toks, c, "COMMENT").c))
    ELSE c

\* the root value, unless nothing but whitespace and comments was there
ParseTokens(toks) ==
  LET e == isEOF(toks, SkipLeadingComments(toks,
                         skipWhitespace(toks, [i |-> 1, line |-> 1, column |-> 1])))
  IN IF e.eof THEN Err("EMPTY_INPUT", 1, 1) ELSE parseValue(toks, e.c)

Tokenized(t) == IF t.st # "ok" THEN t ELSE ParseTokens(t.tokens)

parse(input) == Tokenized(tokenize(input))

(***************************************************************************)
(* AST -> plain value (src/src/ast/converter.ts)                           *)
(***************************************************************************)
astPrimitiveToJS(node) ==
  IF node.primitiveType = "string" THEN JStr(node.value)
  ELSE IF node.primitiveType = "number" THEN JNum(node.value.m, node.value.e)
  ELSE JBool(node.value)

\* obj[key] = v on the entries built so far
EntrySet(entries, key, v) ==
  IF \E x \in 1..Len(entries) : entries[x].key = key
    THEN [x \in 1..Len(entries) |->
            IF entries[x].key = key THEN [key |-> key, val |-> v] ELSE entries[x]]
    ELSE Append(entries, [key |-> key, val |-> v])

RECURSIVE astToJS(_)
RECURSIVE astObjectToJS(_, _, _)
astObjectToJS(properties, x, entries) ==
  IF x > Len(properties) THEN JObj(entries)
  ELSE astObjectToJS(properties, x + 1,
                     EntrySet(entries, properties[x].key, astToJS(properties[x].value)))

astArrayToJS(node) == JArr([x \in 1..Len(node.items) |-> astToJS(node.items[x])])

astToJS(node) ==
  IF node.type = "object" THEN astObjectToJS(node.properties, 1, <<>>)
  ELSE IF node.type = "array" THEN astArrayToJS(node)
  ELSE IF node.type = "primitive" THEN astPrimitiveToJS(node)
  ELSE JNull

\* deep equality of plain values; the order of an object's keys is not part
\* of its value
RECURSIVE JEq(_, _)
JEq(a, b) ==
  IF a.k # b.k THEN FALSE
  ELSE IF a.k = "null" THEN TRUE
  ELSE IF a.k = "array"
    THEN Len(a.items) = Len(b.items) /\ \A x \in 1..Len(a.items) : JEq(a.items[x], b.items[x])
  ELSE IF a.k = "object"
    THEN /\ Len(a.entries) = Len(b.entries)
         /\ \A x \in 1..Len(a.entries) :
              \E y \in 1..Len(b.entries) : a.entries[x].key = b.entries[y].key /\ JEq(a.entries[x].val, b.entries[y].val)
  ELSE a = b

DEFAULT_DECODE_OPTIONS ==
  [preserveComments |-> TRUE, allowTrailingCommas |-> FALSE, allowEmptyKeys |-> FALSE,
   coerceNumbers |-> TRUE, coerceBooleans |-> TRUE]

\* { ...DEFAULT_DECODE_OPTIONS, ...options }: options is a function from
\* some of the option names to values
mergeDecodeOptions(options) ==
  [name \in DOMAIN DEFAULT_DECODE_OPTIONS |->
     IF name \in DOMAIN options THEN options[name] ELSE DEFAULT_DECODE_OPTIONS[name]]

\* parseWithOptions(input, options): the merged options are not used
parseWithOptions(input, options) == parse(input)

\* decode(input, options) (core.ts): parseWithOptions, then astToJS
DecodeOf(r) ==
  IF r.st = "ok" THEN [st |-> "ok", value |-> astToJS(r.node)]
  ELSE [st |-> r.st, value |-> JNull]

decode(input, options) == DecodeOf(parseWithOptions(input, mergeDecodeOptions(options)))

(***************************************************************************)
(* Quoting (src/src/encoder/formatter.ts, lines 186-242)                   *)
(***************************************************************************)
ReservedChars == {"[", "]", ",", ":", "{", "}", DQ, "#"}

SafeUnquotedChars == Letters \cup Digits \cup {".", "_", "-"}

\* NUMERIC_PATTERN: as the parser's grammar, but no leading zero in the
\* integer part
MatchesNumericPattern(s) ==
  LET p == NumScan(s)
  IN p.ok /\ (p.int = <<"0">> \/ p.int[1] # "0")

ReservedWords == {<<"t", "r", "u", "e">>, <<"f", "a", "l", "s", "e">>, <<"n", "u", "l", "l">>}

needsQuoting(s) ==
  IF Len(s) = 0 THEN TRUE
  ELSE IF s # Trim(s) THEN TRUE
  ELSE IF \E x \in 1..Len(s) : s[x] \in {NL, CR, TAB} THEN TRUE
  ELSE IF \E x \in 1..Len(s) : s[x] \in ReservedChars THEN TRUE
  ELSE IF MatchesNumericPattern(s) THEN TRUE
  ELSE IF s \in ReservedWords THEN TRUE
  ELSE ~(\A x \in 1..Len(s) : s[x] \in SafeUnquotedChars)

\* the escapes without the one for the backslash itself
RECURSIVE escapeStringKeepBackslash(_)
escapeStringKeepBackslash(s) ==
  IF s = <<>> THEN <<>>
  ELSE (CASE s[1] = DQ -> <<BS, DQ>>
          [] s[1] = NL -> <<BS, "n">>
          [] s[1] = CR -> <<BS, "r">>
          [] s[1] = TAB -> <<BS, "t">>
          [] OTHER -> <<s[1]>>) \o escapeStringKeepBackslash(Tail(s))

RECURSIVE escapeString(_)
escapeString(s) ==
  IF s = <<>> THEN <<>>
  ELSE (CASE s[1] = BS -> <<BS, BS>>
          [] s[1] = DQ -> <<BS, DQ>>
          [] s[1] = NL -> <<BS, "n">>
          [] s[1] = CR -> <<BS, "r">>
          [] s[1] = TAB -> <<BS, "t">>
          [] OTHER -> <<s[1]>>) \o escapeString(Tail(s))

(***************************************************************************)
(* Formatter (src/src/encoder/formatter.ts, lines 1-117)                   *)
(***************************************************************************)
\* a FormattedValue; an absent headerSuffix or comment is <<>>
FormattedValue(inline, txt) ==
  [st |-> "ok", inline |-> inline, text |-> txt, headerSuffix |-> <<>>,
   leadingComment |-> <<>>, inlineComment |-> <<>>, trailingComment |-> <<>>]

FormattedProperty(key, fv, headerSuffix) ==
  [key |-> key, value |-> fv, headerSuffix |-> headerSuffix,
   leadingComment |-> <<>>, inlineComment |-> <<>>]

indentString(context) ==
  LET width == context.indentLevel * context.indentSize
  IN IF width <= 0 THEN <<>> ELSE Spaces(width)

\* the lines `${indent}#${commentLine}` of a comment
CommentLines(indent, comment) ==
  LET parts == Split(comment, NL)
  IN [x \in 1..Len(parts) |-> indent \o <<"#">> \o parts[x]]

Truthy(a, b) == IF a # <<>> THEN a ELSE b

\* the lines one property contributes to formatObject
PropertyLines(property, indent) ==
  LET lead == Truthy(property.leadingComment, property.value.leadingComment)
      inl == Truthy(property.inlineComment, property.value.inlineComment)
      key == property.key \o property.headerSuffix
  IN (IF lead # <<>> THEN CommentLines(indent, lead) ELSE <<>>)
     \o (IF property.value.inline
           THEN <<indent \o key \o <<":", SP>> \o property.value.text
                  \o (IF inl # <<>> THEN <<SP, "#">> \o inl ELSE <<>>)>>
           ELSE <<indent \o key \o <<":">>, property.value.text>>)
     \o (IF property.value.trailingComment # <<>>
           THEN CommentLines(indent, property.value.trailingComment) ELSE <<>>)

\* properties.forEach: the lines of every property, in order
RECURSIVE ObjectLines(_, _)
ObjectLines(properties, indent) ==
  IF properties = <<>> THEN <<>>
  ELSE PropertyLines(properties[1], indent) \o ObjectLines(Tail(properties), indent)

formatObject(properties, context) ==
  IF Len(properties) = 0 THEN FormattedValue(TRUE, <<"{", "}">>)
  ELSE FormattedValue(FALSE,
         Join(ObjectLines(properties, indentString(context)), context.newline))

\* the lines one item contributes to formatArray
ItemLines(item, indent) ==
  (IF item.leadingComment # <<>> THEN CommentLines(indent, item.leadingComment) ELSE <<>>)
  \o (IF item.inline
        THEN <<indent \o <<"-", SP>> \o item.text
               \o (IF item.inlineComment # <<>> THEN <<SP, "#">> \o item.inlineComment
                   ELSE <<>>)>>
        ELSE <<indent \o <<"-">>, item.text>>)
  \o (IF item.trailingComment # <<>>
        THEN CommentLines(indent, item.trailingComment) ELSE <<>>)

\* items.forEach: the lines of every item, in order
RECURSIVE ArrayLines(_, _)
ArrayLines(items, indent) ==
  IF items = <<>> THEN <<>>
  ELSE ItemLines(items[1], indent) \o ArrayLines(Tail(items), indent)

formatArray(items, context) ==
  FormattedValue(FALSE, Join(ArrayLines(items, indentString(context)), context.newline))

(***************************************************************************)
(* Encoder (src/src/validator/validator.ts, lines 301-781)                 *)
(***************************************************************************)
INLINE_PRIMITIVE_MAX_ITEMS == 5
INLINE_PRIMITIVE_MAX_LENGTH == 80

DEFAULT_OPTIONS ==
  [indent |-> 2, newline |-> <<NL>>, quoteMode |-> "auto",
   compactArrays |-> TRUE, preserveComments |-> TRUE]

\* an EncodeError: its code, and whether the throw passes an expected
\* description and a suggestion
EncodeError(code, expected, suggestion) ==
  [st |-> "err", code |-> code, expected |-> expected, suggestion |-> suggestion]

RECURSIVE IntToDigits(_)
IntToDigits(n) ==
  IF n < 10 THEN <<DigitChar(n)>> ELSE IntToDigits(n \div 10) \o <<DigitChar(n % 10)>>

RECURSIVE Zeros(_)
Zeros(n) == IF n <= 0 THEN <<>> ELSE <<"0">> \o Zeros(n - 1)

\* Number.prototype.toString in radix 10 for m * 10^e, ds being the digits
\* of |m| and n the position of the decimal point behind the first of them
NumToString(num) ==
  LET ds == IntToDigits(IF num.m < 0 THEN 0 - num.m ELSE num.m)
      n == Len(ds) + num.e
      sign == IF num.m < 0 THEN <<"-">> ELSE <<>>
      exponent == <<"e">> \o (IF n - 1 < 0 THEN <<"-">> ELSE <<"+">>)
                    \o IntToDigits(IF n - 1 < 0 THEN 1 - n ELSE n - 1)
  IN IF num.m = 0 THEN <<"0">>
     ELSE IF Len(ds) <= n /\ n <= 21 THEN sign \o ds \o Zeros(n - Len(ds))
     ELSE IF 0 < n /\ n <= 21
       THEN sign \o SubSeq(ds, 1, n) \o <<".">> \o SubSeq(ds, n + 1, Len(ds))
     ELSE IF -6 < n /\ n <= 0 THEN sign \o <<"0", ".">> \o Zeros(0 - n) \o ds
     ELSE IF Len(ds) = 1 THEN sign \o ds \o exponent
     ELSE sign \o <<ds[1], ".">> \o SubSeq(ds, 2, Len(ds)) \o exponent

\* encodeNumber without the Number.isFinite test
encodeNumberUnchecked(num) ==
  [st |-> "ok", text |-> NumToString(num)]

encodeNumber(num) ==
  IF ~IsFiniteNumber(num) THEN EncodeError("UNSUPPORTED_TYPE", FALSE, FALSE)
  ELSE [st |-> "ok", text |-> NumToString(num)]

encodeBoolean(b) == IF b THEN <<"t", "r", "u", "e">> ELSE <<"f", "a", "l", "s", "e">>

encodeString(s, quoteMode) ==
  IF quoteMode = "always" THEN <<DQ>> \o escapeString(s) \o <<DQ>>
  ELSE IF quoteMode = "never" THEN s
  ELSE IF needsQuoting(s) THEN <<DQ>> \o escapeString(s) \o <<DQ>>
  ELSE s

isPrimitiveValue(j) == j.k \in {"null", "string", "number", "boolean"}

isPlainObject(j) == j.k = "object"

encodePrimitive(j, quoteMode) ==
  IF j.k = "null" THEN [st |-> "ok", text |-> <<"n", "u", "l", "l">>]
  ELSE IF j.k = "string" THEN [st |-> "ok", text |-> encodeString(j.s, quoteMode)]
  ELSE IF j.k = "number" THEN encodeNumber(j.n)
  ELSE IF j.k = "boolean" THEN [st |-> "ok", text |-> encodeBoolean(j.b)]
  ELSE EncodeError("INVALID_VALUE", TRUE, TRUE)

\* encodePrimitive as a FormattedValue
InlinePrimitive(j, quoteMode) ==
  LET r == encodePrimitive(j, quoteMode)
  IN IF r.st # "ok" THEN r ELSE FormattedValue(TRUE, r.text)

\* the thresholds read as exclusive
shouldRenderInlineExclusive(itemCount, inlineLength) ==
  itemCount < INLINE_PRIMITIVE_MAX_ITEMS /\ inlineLength < INLINE_PRIMITIVE_MAX_LENGTH

shouldRenderInlinePrimitiveArray(itemCount, inlineLength) ==
  itemCount <= INLINE_PRIMITIVE_MAX_ITEMS /\ inlineLength <= INLINE_PRIMITIVE_MAX_LENGTH

isObjectArray(items) ==
  Len(items) > 0 /\ \A x \in 1..Len(items) : isPlainObject(items[x])

\* normalizeObjectForEncoding: the entries whose value is not undefined
normalizeObjectForEncoding(j) ==
  JObj(SelectSeq(j.entries, LAMBDA en : en.val.k # "undefined"))

Keys(j) == [x \in 1..Len(j.entries) |-> j.entries[x].key]

isUniformObjectArray(items) ==
  Len(items) > 0 /\ \A x \in 2..Len(items) : Keys(items[x]) = Keys(items[1])

hasOnlyPrimitiveValues(j) == \A x \in 1..Len(j.entries) : isPrimitiveValue(j.entries[x].val)

\* the first result of rs that is not ok, or none
FirstError(rs) ==
  IF \E x \in 1..Len(rs) : rs[x].st # "ok"
    THEN rs[CHOOSE x \in 1..Len(rs) : rs[x].st # "ok" /\ \A y \in 1..(x - 1) : rs[y].st = "ok"]
    ELSE [st |-> "ok"]

Texts(rs) == [x \in 1..Len(rs) |-> rs[x].text]

\* item[field]
Field(j, field) ==
  j.entries[CHOOSE x \in 1..Len(j.entries) : j.entries[x].key = field].val

\* the row of the parts `${field}: ${encodePrimitive(item[field])}`
RowOfParts(parts, rowIndent) ==
  IF FirstError(parts).st # "ok" THEN FirstError(parts)
  ELSE [st |-> "ok", text |-> rowIndent \o Join(Texts(parts), <<",", SP>>)]

formatCompactRow(item, fields, context, rowIndent) ==
  RowOfParts([x \in 1..Len(fields) |->
                LET r == encodePrimitive(Field(item, fields[x]), context.options.quoteMode)
                IN IF r.st # "ok" THEN r
                   ELSE [st |-> "ok", text |-> fields[x] \o <<":", SP>> \o r.text]],
             rowIndent)

RECURSIVE encodeValue(_, _)
RECURSIVE encodeObject(_, _)
RECURSIVE encodeArray(_, _, _)
RECURSIVE encodeDashArray(_, _)

Deeper(context) == [context EXCEPT !.indentLevel = context.indentLevel + 1]

\* The call stack of the runtime is finite: a container nested deeper than
\* MaxCallDepth cannot be entered, and the call ends in the runtime's
\* RangeError, which is not an EncodeError.
MaxCallDepth == 6

RangeError == [st |-> "overflow"]

CallStackExceeded(context) == context.indentLevel > MaxCallDepth

\* the inline form when it is short enough, else the dash form
PrimitiveArrayOf(items, context, encodedItems) ==
  LET inlineText == <<"[">> \o Join(Texts(encodedItems), <<",", SP>>) \o <<"]">>
  IN IF FirstError(encodedItems).st # "ok" THEN FirstError(encodedItems)
     ELSE IF shouldRenderInlinePrimitiveArray(Len(items), Len(inlineText))
       THEN FormattedValue(TRUE, inlineText)
     ELSE encodeDashArray(items, context)

encodePrimitiveArray(items, context) ==
  PrimitiveArrayOf(items, context,
                   [x \in 1..Len(items) |-> encodePrimitive(items[x], context.options.quoteMode)])

DashArrayOf(formattedItems, context) ==
  IF FirstError(formattedItems).st # "ok" THEN FirstError(formattedItems)
  ELSE formatArray(formattedItems, context)

encodeDashArray(items, context) ==
  DashArrayOf([x \in 1..Len(items) |-> encodeValue(items[x], Deeper(context))], context)

\* the header suffix [N]{f1, f2} and the rows under it
CompactOf(items, fields, context, rows) ==
  IF FirstError(rows).st # "ok" THEN FirstError(rows)
  ELSE [FormattedValue(FALSE, Join(Texts(rows), context.newline))
          EXCEPT !.headerSuffix = <<"[">> \o IntToDigits(Len(items)) \o <<"]", "{">>
                                    \o Join(fields, <<",", SP>>) \o <<"}">>]

encodeCompactArray(items, context) ==
  LET fields == Keys(items[1])
      rowIndent == indentString(context)
  IN IF Len(items) = 0 THEN FormattedValue(TRUE, <<"[", "]">>)
     ELSE IF Len(fields) = 0 THEN encodeDashArray(items, context)
     ELSE CompactOf(items, fields, context,
            [x \in 1..Len(items) |-> formatCompactRow(items[x], fields, context, rowIndent)])

\* parentKey is <<>> when the array is not the value of a key; an array of
\* plain objects is compact when they are uniform, flat and keyed
encodeArray(items, context, parentKey) ==
  LET normalizedItems == [x \in 1..Len(items) |-> normalizeObjectForEncoding(items[x])]
      uniformObjects == isUniformObjectArray(normalizedItems)
      hasFields == Len(normalizedItems[1].entries) > 0
      primitiveFields == \A x \in 1..Len(items) : hasOnlyPrimitiveValues(normalizedItems[x])
  IN IF CallStackExceeded(context) THEN RangeError
     ELSE IF Len(items) = 0 THEN FormattedValue(TRUE, <<"[", "]">>)
     ELSE IF \A x \in 1..Len(items) : isPrimitiveValue(items[x])
       THEN encodePrimitiveArray(items, context)
     ELSE IF isObjectArray(items)
       THEN IF uniformObjects /\ primitiveFields /\ hasFields /\ parentKey # <<>>
               /\ context.options.compactArrays
              THEN encodeCompactArray(normalizedItems, context)
              ELSE encodeDashArray(items, context)
     ELSE encodeDashArray(items, context)

\* the FormattedProperty of one entry of encodeObject
EncodeEntry(en, context) ==
  IF isPlainObject(en.val)
    THEN encodeObject(en.val, Deeper(context))
  ELSE IF en.val.k = "array"
    THEN encodeArray(en.val.items, Deeper(context), en.key)
  ELSE InlinePrimitive(en.val, context.options.quoteMode)

\* formatObject over the encoded entries
ObjectOf(present, encoded, context) ==
  IF FirstError(encoded).st # "ok" THEN FirstError(encoded)
  ELSE formatObject([x \in 1..Len(present) |->
                       FormattedProperty(present[x].key, encoded[x], encoded[x].headerSuffix)],
                    context)

encodeObject(j, context) ==
  LET present == SelectSeq(j.entries, LAMBDA en : en.val.k # "undefined")
  IN IF CallStackExceeded(context) THEN RangeError
     ELSE IF Len(j.entries) = 0 THEN FormattedValue(TRUE, <<"{", "}">>)
     ELSE ObjectOf(present, [x \in 1..Len(present) |-> EncodeEntry(present[x], context)],
                   context)

encodeValue(j, context) ==
  IF j.k = "null" THEN FormattedValue(TRUE, <<"n", "u", "l", "l">>)
  ELSE IF j.k = "array" THEN encodeArray(j.items, context, <<>>)
  ELSE IF isPlainObject(j) THEN encodeObject(j, context)
  ELSE IF j.k = "string"
    THEN FormattedValue(TRUE, encodeString(j.s, context.options.quoteMode))
  ELSE IF j.k = "number" THEN InlinePrimitive(j, context.options.quoteMode)
  ELSE IF j.k = "boolean" THEN FormattedValue(TRUE, encodeBoolean(j.b))
  ELSE IF j.k = "undefined" THEN EncodeError("INVALID_VALUE", TRUE, TRUE)
  ELSE IF j.k \in {"function", "symbol"} THEN EncodeError("UNSUPPORTED_TYPE", TRUE, TRUE)
  ELSE EncodeError("UNSUPPORTED_TYPE", TRUE, TRUE)

\* encode(value, options): options already merged over DEFAULT_OPTIONS
EncodedText(result) ==
  IF result.st # "ok" THEN result ELSE [st |-> "ok", text |-> result.text]

encode(j, options) ==
  EncodedText(encodeValue(j, [indentLevel |-> 0, indentSize |-> options.indent,
                              newline |-> options.newline, options |-> options]))

(***************************************************************************)
(* encodeAST (src/src/validator/validator.ts, lines 683-781).  The nodes   *)
(* the parser builds never carry a trailingComment, so that slot of the    *)
(* formatted value stays empty.                                            *)
(***************************************************************************)
\* the comments are copied to the formatted value whatever the option says
AttachCommentsAlways(formatted, node, preserveComments) ==
  [formatted EXCEPT !.leadingComment = node.leadingComment,
                    !.inlineComment = node.inlineComment]

\* if (preserveComments && node.leadingComment) formatted.leadingComment = ...
AttachComments(formatted, node, preserveComments) ==
  IF preserveComments
    THEN [formatted EXCEPT !.leadingComment = node.leadingComment,
                           !.inlineComment = node.inlineComment]
    ELSE formatted

ASTObjectOf(node, encoded, context) ==
  IF FirstError(encoded).st # "ok" THEN FirstError(encoded)
  ELSE AttachComments(
         formatObject([x \in 1..Len(encoded) |->
                         AttachComments(
                           FormattedProperty(node.properties[x].key, encoded[x], <<>>),
                           node.properties[x].value, context.options.preserveComments)],
                      context),
         node, context.options.preserveComments)

ASTArrayOf(node, encoded, context) ==
  IF FirstError(encoded).st # "ok" THEN FirstError(encoded)
  ELSE AttachComments(formatArray(encoded, context), node, context.options.preserveComments)

RECURSIVE encodeASTNode(_, _)
encodeASTNode(node, context) ==
  IF node.type = "object"
    THEN ASTObjectOf(node,
           [x \in 1..Len(node.properties) |->
              encodeASTNode(node.properties[x].value, Deeper(context))],
           context)
  ELSE IF node.type = "array"
    THEN ASTArrayOf(node,
           [x \in 1..Len(node.items) |-> encodeASTNode(node.items[x], Deeper(context))],
           context)
  ELSE IF node.type = "primitive"
    THEN LET r == encodePrimitive(astPrimitiveToJS(node), context.options.quoteMode)
         IN IF r.st # "ok" THEN r
            ELSE AttachComments(FormattedValue(TRUE, r.text), node,
                                context.options.preserveComments)
  ELSE AttachComments(FormattedValue(TRUE, <<"n", "u", "l", "l">>), node,
                      context.options.preserveComments)

\* encodeAST(node, options): options already merged over DEFAULT_OPTIONS
encodeAST(node, options) ==
  EncodedText(encodeASTNode(node, [indentLevel |-> 0, indentSize |-> options.indent,
                                   newline |-> options.newline, options |-> options]))

(***************************************************************************)
(* validate (src/src/validator/validator.ts).  A schema is a record with   *)
(* the field type; an object schema holds required (a list of keys) and    *)
(* properties (the entries [key, schema] in order), an array schema holds  *)
(* uniform and items (a list of no or one schema).  An absent required or  *)
(* properties is the empty list: the loops over them do the same.  The     *)
(* errors are returned in the order the source pushes them.                *)
(***************************************************************************)
TypeSchema(type) == [type |-> type]
ObjectSchema(required, properties) ==
  [type |-> "object", schema |-> [required |-> required, properties |-> properties]]
ArraySchema(uniform, items) ==
  [type |-> "array", schema |-> [uniform |-> uniform, items |-> items]]
NoSchema == [type |-> "none"]

\* a ValidationError; message is the kind of the message and what it names
ValidationError(message, path, node) ==
  [message |-> message, path |-> path, line |-> node.line, column |-> node.column]

\* path ? `${path}.${key}` : key
PropertyPath(path, key) == IF path # <<>> THEN path \o <<".">> \o key ELSE key

\* `${path}[${i}]`, i counted from 0
ItemPath(path, x) == path \o <<"[">> \o IntToDigits(x - 1) \o <<"]">>

\* the concatenation of the lists of a list
RECURSIVE Flatten(_)
Flatten(lists) == IF lists = <<>> THEN <<>> ELSE Head(lists) \o Flatten(Tail(lists))

\* Array.from(properties.keys()).sort() as the set it lists
checkArrayUniformity(arrayNode) ==
  IF Len(arrayNode.items) = 0 THEN TRUE
  ELSE IF Len(arrayNode.items) = 1 THEN arrayNode.items[1].type = "object"
  ELSE /\ \A x \in 1..Len(arrayNode.items) : arrayNode.items[x].type = "object"
       /\ \A x \in 2..Len(arrayNode.items) :
            {arrayNode.items[x].properties[y].key : y \in 1..Len(arrayNode.items[x].properties)}
              = {arrayNode.items[1].properties[y].key :
                   y \in 1..Len(arrayNode.items[1].properties)}

\* does the node have the type the schema names
NodeIsOfType(node, type) ==
  IF type \in {"string", "number", "boolean"}
    THEN node.type = "primitive" /\ node.primitiveType = type
    ELSE node.type = type

RECURSIVE validateNode(_, _, _)

\* the first loop of validateObjectStructure: the required keys
RequiredErrors(node, schema, path) ==
  LET missing == SelectSeq(schema.required, LAMBDA key : ~MapHas(node.properties, key))
  IN [x \in 1..Len(missing) |->
        ValidationError([kind |-> "missing", key |-> missing[x]],
                        PropertyPath(path, missing[x]), node)]

\* the second loop: the properties the schema describes and the node has
PropertyErrors(node, schema, path) ==
  Flatten([x \in 1..Len(schema.properties) |->
    IF MapHas(node.properties, schema.properties[x].key)
      THEN validateNode(
             node.properties[CHOOSE y \in 1..Len(node.properties) :
                               node.properties[y].key = schema.properties[x].key].value,
             schema.properties[x].schema,
             PropertyPath(path, schema.properties[x].key))
      ELSE <<>>])

\* validateObjectStructure that stops after a missing key
validateObjectStructureFirst(node, schema, path) ==
  IF RequiredErrors(node, schema, path) # <<>>
    THEN RequiredErrors(node, schema, path)
    ELSE PropertyErrors(node, schema, path)

validateObjectStructure(node, schema, path) ==
  RequiredErrors(node, schema, path) \o PropertyErrors(node, schema, path)

validateArrayStructure(node, schema, path) ==
  (IF schema.uniform /\ ~checkArrayUniformity(node) /\ Len(node.items) > 0
     THEN <<ValidationError([kind |-> "uniform"], path, node)>>
     ELSE <<>>)
  \o (IF schema.items # <<>>
        THEN Flatten([x \in 1..Len(node.items) |->
                        validateNode(node.items[x], schema.items[1], ItemPath(path, x))])
        ELSE <<>>)

validateNode(node, schema, path) ==
  IF schema.type = "any" THEN <<>>
  ELSE IF schema.type \in {"string", "number", "boolean", "null"}
    THEN IF NodeIsOfType(node, schema.type) THEN <<>>
         ELSE <<ValidationError([kind |-> "expected", type |-> schema.type, got |-> node.type],
                                path, node)>>
  ELSE IF schema.type = "object"
    THEN IF node.type # "object"
           THEN <<ValidationError([kind |-> "expected", type |-> "object", got |-> node.type],
                                  path, node)>>
           ELSE validateObjectStructure(node, schema.schema, path)
  ELSE IF schema.type = "array"
    THEN IF node.type # "array"
           THEN <<ValidationError([kind |-> "expected", type |-> "array", got |-> node.type],
                                  path, node)>>
           ELSE validateArrayStructure(node, schema.schema, path)
  ELSE <<>>

\* validateStructure: the walk without a schema, which reports empty keys
RECURSIVE validateStructure(_, _)
validateStructure(node, path) ==
  IF node.type = "object"
    THEN Flatten([x \in 1..Len(node.properties) |->
           (IF Len(Trim(node.properties[x].key)) = 0
              THEN <<ValidationError([kind |-> "emptyKey"],
                                     IF path # <<>> THEN path
                                     ELSE <<"<", "r", "o", "o", "t", ">">>, node)>>
              ELSE <<>>)
           \o validateStructure(node.properties[x].value,
                                PropertyPath(path, node.properties[x].key))])
  ELSE IF node.type = "array"
    THEN Flatten([x \in 1..Len(node.items) |->
                    validateStructure(node.items[x], ItemPath(path, x))])
  ELSE <<>>

validate(node, schema) ==
  LET errors == IF schema # NoSchema
                  THEN validateNode(node, schema, <<>>)
                  ELSE validateStructure(node, <<>>)
  IN [valid |-> Len(errors) = 0, errors |-> errors]

(***************************************************************************)
(* The calls as actions.  A caller holds a plain value, hands it to        *)
(* encode, hands the text to parse and the AST to astToJS; each call is    *)
(* one step.  A text can also come from outside (the specifications that   *)
(* start with a document).                                                 *)
(***************************************************************************)
Unset == [k |-> "unset", st |-> "unset"]

\* an options argument left out
NoOptions == <<>>

\* the module-level constants of encoder.ts and core.ts, and the options
\* objects a caller holds for encode/encodeAST and for decode
Shared(options, decodeOptions) ==
  [DEFAULT_OPTIONS |-> DEFAULT_OPTIONS,
   DEFAULT_DECODE_OPTIONS |-> DEFAULT_DECODE_OPTIONS,
   options |-> options,
   decodeOptions |-> decodeOptions]

\* A value whose objects and arrays refer to each other is a graph of cells:
\* cell 1 is the value, and Ref(to) as a member is the reference to cell
\* `to`.  Following the references from a member gives the value the encoder
\* walks; it is followed three containers past MaxCallDepth: encodeArray at
\* the deepest call looks at the values of the properties of its items.
Ref(to) == [k |-> "ref", to |-> to]
Graph(cells) == [k |-> "graph", cells |-> cells]

RECURSIVE Unfold(_, _, _)
Unfold(cells, member, fuel) ==
  IF member.k # "ref" THEN member
  ELSE IF fuel = 0 THEN JNull
  ELSE LET cell == cells[member.to]
       IN IF cell.k = "array"
            THEN JArr([x \in 1..Len(cell.items) |-> Unfold(cells, cell.items[x], fuel - 1)])
            ELSE JObj([x \in 1..Len(cell.entries) |->
                         [key |-> cell.entries[x].key,
                          val |-> Unfold(cells, cell.entries[x].val, fuel - 1)]])

ValueOf(j) ==
  IF j.k = "graph" THEN Unfold(j.cells, Ref(1), MaxCallDepth + 3) ELSE j

\* encode(value): returns the text or throws an EncodeError
Encode ==
  /\ phase = "value"
  /\ text' = encode(ValueOf(jsValue), DEFAULT_OPTIONS)
  /\ phase' = "encoded"
  /\ UNCHANGED <<jsValue, ast, out, shared>>

\* parse(text): returns an AST (with the context it stopped in), throws a
\* ParseError, or never returns
Parse ==
  /\ phase = "encoded"
  /\ text.st = "ok"
  /\ LET r == parse(text.text)
     IN /\ ast' = r
        /\ phase' = IF r.st = "hang" THEN "parsing" ELSE "parsed"
  /\ UNCHANGED <<jsValue, text, out, shared>>

\* astToJS(ast)
AstToJS ==
  /\ phase = "parsed"
  /\ ast.st = "ok"
  /\ out' = astToJS(ast.node)
  /\ phase' = "decoded"
  /\ UNCHANGED <<jsValue, text, ast, shared>>

Next == Encode \/ Parse \/ AstToJS

\* tokenize(text): returns the tokens, throws a ParseError, or never returns
Tokenize ==
  /\ phase = "encoded"
  /\ text.st = "ok"
  /\ out' = tokenize(text.text)
  /\ phase' = "tokenized"
  /\ UNCHANGED <<jsValue, text, ast, shared>>

(***************************************************************************)
(* Plain values within bounds                                              *)
(***************************************************************************)
MaxItems == 2
MaxDepth == 2

Primitives ==
  { JNull, JBool(TRUE), JBool(FALSE), JNum(0, 0), JNum(-15, -1), JNum(3, 2),
    JStr(<<>>), JStr(<<"a">>), JStr(<<"a", " ", "b">>), JStr(<<"1", "2">>),
    JStr(<<"t", "r", "u", "e">>) }

PropertyKeys == { <<"a">>, <<"b">> }

SeqsUpTo(S, n) == UNION { [1..m -> S] : m \in 0..n }

\* entries with distinct keys
EntriesUpTo(S, n) ==
  { en \in SeqsUpTo([key : PropertyKeys, val : S], n) :
      \A x, y \in 1..Len(en) : x # y => en[x].key # en[y].key }

\* containers of at most MaxItems primitives, then single-item containers
\* around what is there, MaxDepth levels in all
RECURSIVE ValuesOfDepth(_)
ValuesOfDepth(d) ==
  IF d = 0 THEN Primitives
  ELSE IF d = 1
    THEN Primitives \cup { JArr(s) : s \in SeqsUpTo(Primitives, MaxItems) }
                    \cup { JObj(en) : en \in EntriesUpTo(Primitives, MaxItems) }
  ELSE LET S == ValuesOfDepth(d - 1)
       IN S \cup { JArr(<<v>>) : v \in S }
            \cup { JObj(<<[key |-> kk, val |-> v]>>) : kk \in PropertyKeys, v \in S }

Values == ValuesOfDepth(MaxDepth)

\* uniform object arrays under the key t: one to MaxItems rows over one list
\* of fields, every cell a primitive
Cells == { JNull, JBool(TRUE), JNum(-15, -1), JStr(<<"a">>), JStr(<<"1", "2">>) }

FieldLists == { << <<"a">> >>, << <<"a">>, <<"b">> >> }

RowsOver(fields) ==
  { JObj([x \in 1..Len(fields) |-> [key |-> fields[x], val |-> cells[x]]]) :
      cells \in [1..Len(fields) -> Cells] }

TableKey == <<"t">>

Tables ==
  { JObj(<<[key |-> TableKey, val |-> JArr(rows)]>>) :
      rows \in UNION { SeqsUpTo(RowsOver(fields), MaxItems) \ {<<>>} : fields \in FieldLists } }

Init ==
  /\ phase = "value"
  /\ jsValue \in Values \cup Tables
  /\ text = Unset
  /\ ast = Unset
  /\ out = Unset
  /\ shared = Shared(NoOptions, NoOptions)

Spec == Init /\ [][Next]_vars

(***************************************************************************)
(* Documents from outside: parse is handed a text nobody encoded           *)
(***************************************************************************)
MaxLines == 4
MaxRows == 3
MaxTextLen == 5

\* the lines a: |   b: 1 | d: 3 |   # c | (blank) | a: [1] # c | ] | - 2 | 7
DocLines ==
  { <<"a", ":">>,
    <<SP, SP, "b", ":", SP, "1">>,
    <<"d", ":", SP, "3">>,
    <<SP, SP, "#", SP, "c">>,
    <<>>,
    <<"a", ":", SP, "[", "1", "]", SP, "#", SP, "c">>,
    <<"]">>,
    <<"-", SP, "2">>,
    <<"7">> }

Documents == { Join(ls, <<NL>>) : ls \in SeqsUpTo(DocLines, MaxLines) \ {<<>>} }

\* the headers t[1]: | t[2]: | t[1]{x}: | t[2]{x}:
HeaderLines ==
  { <<"t", "[", "1", "]", ":">>,
    <<"t", "[", "2", "]", ":">>,
    <<"t", "[", "1", "]", "{", "x", "}", ":">>,
    <<"t", "[", "2", "]", "{", "x", "}", ":">> }

\* the rows x: 1 | y: 2 | x: 1, y: 2, each behind two spaces
RowLines ==
  { <<SP, SP, "x", ":", SP, "1">>,
    <<SP, SP, "y", ":", SP, "2">>,
    <<SP, SP, "x", ":", SP, "1", ",", SP, "y", ":", SP, "2">> }

\* a header line followed by up to MaxRows row lines
TableDocuments ==
  { Join(<<h>> \o rs, <<NL>>) : h \in HeaderLines, rs \in SeqsUpTo(RowLines, MaxRows) }

OkText(t) == [st |-> "ok", text |-> t]

InitParse ==
  /\ phase = "encoded"
  /\ jsValue = Unset
  /\ text \in { OkText(d) : d \in Documents \cup TableDocuments }
  /\ ast = Unset
  /\ out = Unset
  /\ shared = Shared(NoOptions, NoOptions)

NextParse == Parse \/ AstToJS

SpecParse == InitParse /\ [][NextParse]_vars

\* every text of at most MaxTextLen characters over blanks, newline, the
\* comment sign and a letter
TextChars == {SP, TAB, NL, "#", "c"}

ShortTexts == SeqsUpTo(TextChars, MaxTextLen)

InitBlank ==
  /\ phase = "encoded"
  /\ jsValue = Unset
  /\ text \in { OkText(t) : t \in ShortTexts }
  /\ ast = Unset
  /\ out = Unset
  /\ shared = Shared(NoOptions, NoOptions)

SpecBlank == InitBlank /\ [][NextParse]_vars

(***************************************************************************)
(* Round trip of plain values                                              *)
(***************************************************************************)
\* C1: for every plain value v (maps, lists, strings, finite numbers,
\* booleans, null), encode(v) succeeds, parse of the text returns an AST and
\* astToJS of that AST equals v.
C1_RoundTrip ==
  /\ phase = "encoded" => text.st = "ok"
  /\ phase \in {"parsing", "parsed"} => ast.st = "ok"
  /\ phase = "decoded" => JEq(out, jsValue)

\* the value is an object of one property
IsSingleton(j) == j.k = "object" /\ Len(j.entries) = 1

\* the text of the header key[N]{f1, f2, ...}: for the rows of a table
HeaderText(key, rows) ==
  key \o <<"[">> \o IntToDigits(Len(rows)) \o <<"]", "{">>
      \o Join(Keys(rows[1]), <<",", SP>>) \o <<"}", ":">>

\* C6: for a non-empty array of objects with one non-empty ordered field
\* list and primitive values only, standing under an object key, encode
\* emits the header key[N]{f1, f2, ...}: with N the array length, followed
\* by exactly N rows, and parsing that output reproduces the array in order.
C6_CompactExactness ==
  jsValue \in Tables =>
    /\ phase # "value" =>
         /\ text.st = "ok"
         /\ Split(text.text, NL)[1] = HeaderText(TableKey, jsValue.entries[1].val.items)
         /\ Len(Split(text.text, NL)) = Len(jsValue.entries[1].val.items) + 1
    /\ phase \in {"parsing", "parsed"} => ast.st = "ok"
    /\ phase = "decoded" => JEq(out, jsValue)

\* C9: for every string s, the text encode emits for it in auto quote mode,
\* read back as a property value (k: <text>), parses to a string primitive
\* equal to s: a string that looks like a number or a reserved word is not
\* re-read as a number, boolean or null, and a bare string comes back unchanged.
C9_StringFidelity ==
  (IsSingleton(jsValue) /\ jsValue.entries[1].val.k = "string") =>
    /\ phase # "value" =>
         text = OkText(jsValue.entries[1].key \o <<":", SP>>
                         \o encodeString(jsValue.entries[1].val.s, "auto"))
    /\ phase \in {"parsing", "parsed", "decoded"} =>
         /\ ast.st = "ok"
         /\ ast.node.type = "object"
         /\ Len(ast.node.properties) = 1
         /\ ast.node.properties[1].value.type = "primitive"
         /\ ast.node.properties[1].value.primitiveType = "string"
         /\ ast.node.properties[1].value.value = jsValue.entries[1].val.s

\* C10: encode writes an empty mapping as {} and an empty array as [] inline
\* after the key; key: {} parses to an object with no properties and key: []
\* to an array with no items, so both survive decode(encode(v)).
C10_EmptyContainers ==
  (IsSingleton(jsValue) /\ jsValue.entries[1].val \in {JObj(<<>>), JArr(<<>>)}) =>
    /\ phase # "value" =>
         text = OkText(jsValue.entries[1].key \o <<":", SP>>
                         \o (IF jsValue.entries[1].val.k = "object"
                               THEN <<"{", "}">> ELSE <<"[", "]">>))
    /\ phase \in {"parsing", "parsed", "decoded"} =>
         /\ ast.st = "ok"
         /\ ast.node.type = "object"
         /\ Len(ast.node.properties) = 1
         /\ ast.node.properties[1].value.type = jsValue.entries[1].val.k
         /\ jsValue.entries[1].val.k = "object"
              => ast.node.properties[1].value.properties = <<>>
         /\ jsValue.entries[1].val.k = "array"
              => ast.node.properties[1].value.items = <<>>
    /\ phase = "decoded" => JEq(out, jsValue)

(***************************************************************************)
(* Documents: termination, leftovers, scoping                              *)
(***************************************************************************)
\* C2: parse terminates on every input text: the call returns an AST or
\* raises a ParseError; it is never left inside a loop that repeats without
\* consuming a token.
C2_ParseTerminates == phase # "parsing" /\ ast.st # "hang"

\* the tokens parse left unread when it returned
Leftover(toks, c) ==
  { x \in c.i..Len(toks) : toks[x].type \notin {"INDENT", "NEWLINE", "COMMENT", "EOF"} }

\* C3: whenever parse returns an AST, every token of the input other than
\* whitespace, newlines and comments has been consumed into it; a token left
\* over after the root value makes parse raise a ParseError instead.
C3_NoLeftover ==
  (phase \in {"parsed", "decoded"} /\ ast.st = "ok")
    => Leftover(tokenize(text.text).tokens, ast.c) = {}

\* the number of blanks a line starts with
RECURSIVE LeadingBlanks(_)
LeadingBlanks(ln) ==
  IF ln # <<>> /\ ln[1] = SP THEN 1 + LeadingBlanks(Tail(ln)) ELSE 0

\* every property of the object node whose value stands on the line of its
\* key is on a line indented at least as far as the first key of the object
KeysWithin(node, lines) ==
  \A x \in 1..Len(node.properties) :
    node.properties[x].value.type \in {"primitive", "null"}
      => LeadingBlanks(lines[node.properties[x].value.line]) >= node.column - 1

\* KeysWithin for every object nested in the node as the value of a property
RECURSIVE Scoped(_, _)
Scoped(node, lines) ==
  node.type = "object" =>
    \A x \in 1..Len(node.properties) :
      /\ node.properties[x].value.type = "object"
           => KeysWithin(node.properties[x].value, lines)
      /\ Scoped(node.properties[x].value, lines)

\* C4: in every successfully parsed document a key on a line indented
\* strictly less than a nested object (whose baseIndent is the indentation
\* of its first key) is never stored in that nested object, also when
\* comment lines or blank lines stand before the dedented key.
C4_IndentationScoping ==
  (phase \in {"parsed", "decoded"} /\ ast.st = "ok")
    => Scoped(ast.node, Split(text.text, NL))

(***************************************************************************)
(* Empty input                                                             *)
(***************************************************************************)
\* nothing but spaces, tabs, newlines and comment lines from position i on;
\* inComment says that position i lies behind a comment sign of its line
RECURSIVE BlankFrom(_, _, _)
BlankFrom(s, i, inComment) ==
  IF i > Len(s) THEN TRUE
  ELSE IF s[i] = NL THEN BlankFrom(s, i + 1, FALSE)
  ELSE IF inComment \/ s[i] \in {SP, TAB} THEN BlankFrom(s, i + 1, inComment)
  ELSE s[i] = "#" /\ BlankFrom(s, i + 1, TRUE)

BlankOnly(s) == BlankFrom(s, 1, FALSE)

\* C5: for every input of nothing but spaces, tabs, newlines and comment
\* lines (the empty string included) parse raises the ParseError EMPTY_INPUT
\* at line 1, column 1, with a suggestion; it never returns an AST.
C5_EmptyInput ==
  (phase # "encoded" /\ BlankOnly(text.text))
    => /\ phase = "parsed"
       /\ ast.st = "err"
       /\ ast.code = "EMPTY_INPUT"
       /\ ast.line = 1 /\ ast.column = 1
       /\ ast.suggestion

\* parse has rejected a text of a blank line, an indented comment and the
\* newline behind it
C5_Witness ==
  /\ phase = "parsed"
  /\ text.text = <<NL, SP, "#", "c", NL>>
  /\ ast.st = "err" /\ ast.code = "EMPTY_INPUT"

(***************************************************************************)
(* Compact arrays from outside                                             *)
(***************************************************************************)
\* the text is a header line t[N]: or t[N]{x}: and rows on the lines below
IsTable(t) == Split(t, NL)[1] \in HeaderLines /\ Len(Split(t, NL)) > 1

\* N of the header t[N]
DeclaredLength(t) == DigitVal(t[3])

\* C7: for a compact array declared as key[N]: with rows on the following
\* lines, parse raises a ParseError whenever the number of rows differs
\* from N, with fewer rows and with more rows alike.
C7_RowCount ==
  (phase # "encoded" /\ IsTable(text.text)
     /\ Len(Split(text.text, NL)) - 1 # DeclaredLength(text.text))
    => ast.st = "err"

\* the keys of an object node
NodeKeys(node) == { node.properties[x].key : x \in 1..Len(node.properties) }

\* the node stored under the key in the object node
PropertyOf(node, key) ==
  node.properties[CHOOSE x \in 1..Len(node.properties) : node.properties[x].key = key].value

\* C8: when the header declares the field names {x}, every row object of a
\* successfully parsed array has exactly the declared names as its keys: a
\* row lacking a declared field or carrying an undeclared one is not accepted.
C8_DeclaredFields ==
  (phase # "encoded" /\ ast.st = "ok" /\ IsTable(text.text)
     /\ \E x \in 1..Len(text.text) : text.text[x] = "{")
    => \A x \in 1..Len(PropertyOf(ast.node, TableKey).items) :
         NodeKeys(PropertyOf(ast.node, TableKey).items[x]) = {<<"x">>}

(***************************************************************************)
(* Arrays of primitives handed to encode                                   *)
(***************************************************************************)
MaxArrayItems == 6

\* a string that needs no quotes, n characters long
Filler(n) == [x \in 1..n |-> "x"]

\* a number, a short string, and the two strings that as the only item make
\* an inline text of INLINE_PRIMITIVE_MAX_LENGTH characters and of one more
ArrayItems ==
  { JNum(1, 0), JStr(<<"a">>),
    JStr(Filler(INLINE_PRIMITIVE_MAX_LENGTH - 2)),
    JStr(Filler(INLINE_PRIMITIVE_MAX_LENGTH - 1)) }

PrimitiveArrays ==
  { JArr(s) : s \in UNION { [1..n -> ArrayItems] : n \in 1..MaxArrayItems } }

InitArrays ==
  /\ phase = "value"
  /\ jsValue \in PrimitiveArrays
  /\ text = Unset
  /\ ast = Unset
  /\ out = Unset
  /\ shared = Shared(NoOptions, NoOptions)

NextArrays == Encode

SpecArrays == InitArrays /\ [][NextArrays]_vars

\* the inline form [v1, v2, ...] of the item texts
InlineForm(texts) == <<"[">> \o Join(texts, <<",", SP>>) \o <<"]">>

\* the dash form: one line "- v" per item
DashForm(texts) == Join([x \in 1..Len(texts) |-> <<"-", SP>> \o texts[x]], <<NL>>)

ItemTexts(items) == [x \in 1..Len(items) |-> encodePrimitive(items[x], "auto").text]

MaxStringLen == 3

StringChars == {"0", "1", "-", ".", "e", "a", SP, NL, ":", "!"}

\* every string of at most MaxStringLen characters, and the reserved words
\* in both letter cases
Strings ==
  SeqsUpTo(StringChars, MaxStringLen)
    \cup { <<"t", "r", "u", "e">>, <<"f", "a", "l", "s", "e">>, <<"n", "u", "l", "l">>,
           <<"T", "r", "u", "e">>, <<"N", "U", "L", "L">> }

InitStrings ==
  /\ phase = "value"
  /\ jsValue \in { JStr(str) : str \in Strings }
  /\ text = Unset
  /\ ast = Unset
  /\ out = Unset
  /\ shared = Shared(NoOptions, NoOptions)

SpecStrings == InitStrings /\ [][Next]_vars

\* the cases in which a string is to be quoted
QuotingCases(str) ==
  \/ str = <<>>
  \/ str[1] \in {SP, TAB, NL, CR} \/ str[Len(str)] \in {SP, TAB, NL, CR}
  \/ \E x \in 1..Len(str) : str[x] \in {NL, CR, TAB}
  \/ \E x \in 1..Len(str) : str[x] \in {"[", "]", ",", ":", "{", "}", DQ, "#"}
  \/ ~parseNumber(str).isNull
  \/ str \in {<<"t", "r", "u", "e">>, <<"f", "a", "l", "s", "e">>, <<"n", "u", "l", "l">>}
  \/ \E x \in 1..Len(str) : str[x] \notin (Letters \cup Digits \cup {".", "_", "-"})

\* C12: needsQuoting(s) is true exactly when s is empty, has leading or
\* trailing whitespace, contains a newline, carriage return or tab, contains
\* a reserved character, matches the numeric grammar the parser reads as a
\* number, is true, false or null, or contains a character outside letters,
\* digits, dot, underscore and hyphen.
C12_NeedsQuoting ==
  (phase = "encoded" /\ jsValue.k = "string")
    => (needsQuoting(jsValue.s) <=> QuotingCases(jsValue.s))

(***************************************************************************)
(* Unquoted values handed to parse as the value of a key                   *)
(***************************************************************************)
MaxWordLen == 3

WordChars == {"0", "1", "-", ".", "e", "a", SP}

\* every text of at most MaxWordLen characters, the reserved words in both
\* letter cases, numerals with an exponent, several words on a line
ValueTexts ==
  (SeqsUpTo(WordChars, MaxWordLen) \ {<<>>})
    \cup { <<"n", "u", "l", "l">>, <<"t", "r", "u", "e">>, <<"f", "a", "l", "s", "e">>,
           <<"T", "r", "u", "e">>, <<"N", "U", "L", "L">>, <<"n", "u", "l", "l", "s">>,
           <<"1", "e", "5">>, <<"1", "E", "+", "5">>, <<"1", ".", "5", "e", "-", "2">>,
           <<"1", "e", "9", "9", "9">>, <<"-", "1", "e", "9", "9", "9">>,
           <<"1", "e", "3", "0", "8">>, <<"1", "2", "a", "b">>, <<"a", "1", ".", "5">>,
           <<"t", "r", "u", "e", SP, "1">>, <<"a", SP, SP, "b", SP, "c">> }

InitValues ==
  /\ phase = "encoded"
  /\ jsValue = Unset
  /\ text \in { OkText(<<"k", ":", SP>> \o v) : v \in ValueTexts }
  /\ ast = Unset
  /\ out = Unset
  /\ shared = Shared(NoOptions, NoOptions)

SpecValues == InitValues /\ [][NextParse]_vars

\* the token types of a text that tokenize accepts
TokenTypes(str) ==
  LET t == tokenize(str)
  IN IF t.st = "ok" THEN [x \in 1..Len(t.tokens) |-> t.tokens[x].type] ELSE <<>>

\* the text is a key, a colon and unquoted values up to the end
IsValueLine(str) ==
  LET types == TokenTypes(str)
  IN /\ Len(types) >= 4
     /\ types[1] = "KEY" /\ types[2] = "COLON" /\ types[Len(types)] = "EOF"
     /\ \A x \in 3..(Len(types) - 1) : types[x] \in {"VALUE", "INDENT"}
     /\ \E x \in 3..(Len(types) - 1) : types[x] = "VALUE"

\* the words of a text, those being its runs of characters other than blanks
RECURSIVE WordsOf(_)
WordsOf(str) ==
  IF str = <<>> THEN <<>>
  ELSE IF IsBlank(str[1]) THEN WordsOf(Tail(str))
  ELSE LET e == IF \E x \in 1..Len(str) : IsBlank(str[x])
                  THEN (CHOOSE x \in 1..Len(str) :
                          IsBlank(str[x]) /\ \A y \in 1..(x - 1) : ~IsBlank(str[y]))
                  ELSE Len(str) + 1
       IN <<SubSeq(str, 1, e - 1)>> \o WordsOf(SubSeq(str, e, Len(str)))

\* the words of the value joined by single spaces
Folded(str) == Join(WordsOf(SubSeq(str, 4, Len(str))), <<SP>>)

IsDigits(str) == str # <<>> /\ \A x \in 1..Len(str) : str[x] \in Digits

\* optional minus, digits, optional .digits, optional exponent; the integer
\* part ends at i, the fraction at j
IsNumeral(str) ==
  \E i \in 1..Len(str) : \E j \in i..Len(str) :
    /\ \/ IsDigits(SubSeq(str, 1, i))
       \/ str[1] = "-" /\ IsDigits(SubSeq(str, 2, i))
    /\ \/ j = i
       \/ str[i + 1] = "." /\ IsDigits(SubSeq(str, i + 2, j))
    /\ \/ j = Len(str)
       \/ /\ str[j + 1] \in {"e", "E"}
          /\ \/ IsDigits(SubSeq(str, j + 2, Len(str)))
             \/ /\ j + 2 <= Len(str)
                /\ str[j + 2] \in {"+", "-"}
                /\ IsDigits(SubSeq(str, j + 3, Len(str)))

\* the node stored under the key k
ValueNode == PropertyOf(ast.node, <<"k">>)

\* the kind of a node: null, boolean, number or string
KindOf(node) == IF node.type = "null" THEN "null" ELSE node.primitiveType

ValueParsed == phase = "parsed" /\ ast.st = "ok" /\ IsValueLine(text.text)

MaxMembers == 2

\* a number past the largest double: Infinity
NonFinite == JNum(1, MaxDecimalExponent + 1)

Leaves == {JUndefined, JFunction, JSymbol, NonFinite, JNum(1, 0), JStr(<<"a">>)}

MemberKeys == <<(<<"a">>), (<<"b">>), (<<"c">>), (<<"d">>)>>

\* the arrays and the objects of 0..MaxMembers members drawn from S
ContainersOf(S) ==
  UNION {{JArr(items) : items \in [1..n -> S]} \cup
         {JObj([x \in 1..n |-> [key |-> MemberKeys[x], val |-> vals[x]]]) :
            vals \in [1..n -> S]} : n \in 0..MaxMembers}

\* the leaves, the containers of leaves, and each of those containers as
\* the only member of an array or of an object
UnsupportedValues ==
  Leaves \cup ContainersOf(Leaves)
    \cup {JArr(<<v>>) : v \in ContainersOf(Leaves)}
    \cup {JObj(<<[key |-> <<"k">>, val |-> v]>>) : v \in ContainersOf(Leaves)}

InitUnsupported ==
  /\ jsValue \in UnsupportedValues
  /\ text = Unset
  /\ ast = Unset
  /\ out = Unset
  /\ shared = Shared(NoOptions, NoOptions)
  /\ phase = "value"

NextUnsupported == Encode

SpecUnsupported == InitUnsupported /\ [][NextUnsupported]_vars

\* j is, or holds at some depth, an undefined root or array item, a
\* function, a symbol or a non-finite number
RECURSIVE HoldsUnsupported(_)
HoldsUnsupported(j) ==
  IF j.k \in {"undefined", "function", "symbol"} THEN TRUE
  ELSE IF j.k = "number" THEN j = NonFinite
  ELSE IF j.k = "array" THEN \E x \in 1..Len(j.items) : HoldsUnsupported(j.items[x])
  ELSE IF j.k = "object"
    THEN \E x \in 1..Len(j.entries) :
           j.entries[x].val.k # "undefined" /\ HoldsUnsupported(j.entries[x].val)
  ELSE FALSE

\* j without its own properties whose value is undefined
WithoutUndefined(j) == JObj(SelectSeq(j.entries, LAMBDA en : en.val # JUndefined))

MaxCells == 2

Addresses == 1..MaxCells

CellMembers == {JNum(1, 0), JUndefined} \cup {Ref(to) : to \in Addresses}

\* an object or an array of one or two members
GraphCells ==
  UNION {{JArr(items) : items \in [1..n -> CellMembers]} \cup
         {JObj([x \in 1..n |-> [key |-> MemberKeys[x], val |-> vals[x]]]) :
            vals \in [1..n -> CellMembers]} : n \in 1..2}

Graphs == {Graph(cells) : cells \in [Addresses -> GraphCells]}

InitGraphs ==
  /\ jsValue \in Graphs
  /\ text = Unset
  /\ ast = Unset
  /\ out = Unset
  /\ shared = Shared(NoOptions, NoOptions)
  /\ phase = "value"

NextGraphs == Encode

SpecGraphs == InitGraphs /\ [][NextGraphs]_vars

\* the cells a cell refers to directly
RefsOf(cell) ==
  IF cell.k = "array"
    THEN {cell.items[x].to : x \in {y \in 1..Len(cell.items) : cell.items[y].k = "ref"}}
    ELSE {cell.entries[x].val.to :
            x \in {y \in 1..Len(cell.entries) : cell.entries[y].val.k = "ref"}}

\* the cells reachable from the cells of S in one to n steps
RECURSIVE ReachableIn(_, _, _)
ReachableIn(cells, S, n) ==
  LET step == UNION {RefsOf(cells[a]) : a \in S}
  IN IF n = 0 THEN {} ELSE step \cup ReachableIn(cells, step, n - 1)

\* the value holds a cell that is reachable from itself
HasCycle(g) ==
  \E a \in {1} \cup ReachableIn(g.cells, {1}, MaxCells) :
    a \in ReachableIn(g.cells, {a}, MaxCells)

\* C15: encode of a value that contains a reference cycle ends by raising an
\* EncodeError
C15_CircularRaises ==
  (phase = "encoded" /\ jsValue.k = "graph" /\ HasCycle(jsValue)) => text.st = "err"

(***************************************************************************)
(* Input strings handed to tokenize                                        *)
(***************************************************************************)
MaxInputLen == 3

InputChars == {SP, TAB, NL, ":", ",", "-", "[", "]", "#", DQ, SQ, BS, "a", "1"}

Inputs ==
  UNION {[1..n -> InputChars] : n \in 0..MaxInputLen}
    \cup { <<"a", "[", "1", "]", "{", "b", "}", ":", SP, "1">>,
           <<"a", ":", SP, DQ, "b", BS, DQ, "c", DQ, NL, "-", SP, "-", "1">>,
           <<"a", ":", SP, DQ, "b", BS, DQ, NL, "c">>,
           <<SQ, "a", DQ, "b", SQ, SP, "#", SP, DQ, "c">> }

InitTokens ==
  /\ jsValue = Unset
  /\ text \in {[st |-> "ok", text |-> input] : input \in Inputs}
  /\ ast = Unset
  /\ out = Unset
  /\ shared = Shared(NoOptions, NoOptions)
  /\ phase = "encoded"

NextTokens == Tokenize

SpecTokens == InitTokens /\ [][NextTokens]_vars

\* the backslashes that stand directly before position q, not counting
\* positions up to p
RECURSIVE BackslashRun(_, _, _)
BackslashRun(input, p, q) ==
  IF q - 1 > p /\ input[q - 1] = BS THEN 1 + BackslashRun(input, p, q - 1) ELSE 0

\* the quote at p is closed: the same quote follows it, not escaped
ClosedAfter(input, p) ==
  \E q \in (p + 1)..Len(input) :
    /\ input[q] = input[p]
    /\ BackslashRun(input, p, q) % 2 = 0
    /\ \A r \in (p + 1)..(q - 1) :
         input[r] = input[p] => BackslashRun(input, p, r) % 2 = 1

\* some quote character of the input has no closing quote
HasOpenQuote(input) ==
  \E p \in 1..Len(input) : input[p] \in {DQ, SQ} /\ ~ClosedAfter(input, p)

\* the input starts, after blanks, with a quoted string that is not closed
StartsWithOpenQuote(input) ==
  LET p == SkipBlanks(input, 1)
  IN p <= Len(input) /\ input[p] \in {DQ, SQ} /\ ~ClosedAfter(input, p)

MaxNodeItems == 2

LeafNodes == {PrimitiveNode("string", <<"x">>, FALSE, 1, 1), PrimitiveNode("number", JNum(1, 0).n, FALSE, 1, 1)}

\* the object nodes with the keys a and b, each present or not, and the
\* array nodes of up to MaxNodeItems items, over the nodes of S
ObjectNodesOver(A, B) ==
  {ObjectNode(<<>>, 1, 1)}
    \cup {ObjectNode(<<[key |-> <<"a">>, value |-> x]>>, 1, 1) : x \in A}
    \cup {ObjectNode(<<[key |-> <<"b">>, value |-> y]>>, 1, 1) : y \in B}
    \cup {ObjectNode(<<[key |-> <<"a">>, value |-> xy[1]], [key |-> <<"b">>, value |-> xy[2]]>>,
                     1, 1) : xy \in A \X B}

ArrayNodesOver(S) ==
  UNION {{ArrayNode(items, "dash", 1, 1) : items \in [1..n -> S]} : n \in 0..MaxNodeItems}

FlatNodes == LeafNodes \cup ObjectNodesOver(LeafNodes, LeafNodes) \cup ArrayNodesOver(LeafNodes)

\* flat nodes, objects that hold a flat node under a, and arrays that start
\* with a flat container
ValidatedNodes ==
  FlatNodes
    \cup ObjectNodesOver(FlatNodes, LeafNodes)
    \cup {ArrayNode(<<x>>, "dash", 1, 1) : x \in FlatNodes \ LeafNodes}
    \cup {ArrayNode(<<xy[1], xy[2]>>, "dash", 1, 1) : xy \in (FlatNodes \ LeafNodes) \X LeafNodes}

LeafSchemas == {TypeSchema("string"), TypeSchema("number"), TypeSchema("null"), TypeSchema("any")}

RequiredLists == {<<>>, <<(<<"a">>)>>, <<(<<"a">>), (<<"b">>)>>}

\* the object schemas whose property a is described by a schema of A (or not
\* described) and whose property b may be described as a number
ObjectSchemasOver(A) ==
  {ObjectSchema(required, pa \o pb) :
     required \in RequiredLists,
     pa \in {<<>>} \cup {<<[key |-> <<"a">>, schema |-> x]>> : x \in A},
     pb \in {<<>>, <<[key |-> <<"b">>, schema |-> TypeSchema("number")]>>}}

ArraySchemasOver(A) ==
  {ArraySchema(uniform, items) :
     uniform \in BOOLEAN, items \in {<<>>} \cup {<<x>> : x \in A}}

FlatSchemas ==
  LeafSchemas \cup ObjectSchemasOver({TypeSchema("string"), TypeSchema("number")})
    \cup ArraySchemasOver({TypeSchema("string")})

Schemas ==
  {NoSchema} \cup FlatSchemas
    \cup ObjectSchemasOver(FlatSchemas \ LeafSchemas)
    \cup ArraySchemasOver(FlatSchemas \ LeafSchemas)

\* validate(ast, schema), schema absent or one of Schemas; out keeps the
\* schema next to the result
Validate ==
  /\ phase = "parsed"
  /\ ast.st = "ok"
  /\ \E schema \in Schemas :
       out' = [schema |-> schema, result |-> validate(ast.node, schema)]
  /\ phase' = "validated"
  /\ UNCHANGED <<jsValue, text, ast, shared>>

InitValidate ==
  /\ jsValue = Unset
  /\ text = Unset
  /\ ast \in {[st |-> "ok", node |-> node] : node \in ValidatedNodes}
  /\ out = Unset
  /\ shared = Shared(NoOptions, NoOptions)
  /\ phase = "parsed"

NextValidate == Validate

SpecValidate == InitValidate /\ [][NextValidate]_vars

\* What the claim asks to be reported, as a set of [path, kind]: a type
\* mismatch wherever a schema names a type the node does not have, and a
\* missing key for every required key an object lacks; the walk goes on into
\* every property and item that both the schema and the node have.
RECURSIVE Mismatches(_, _, _)
Mismatches(node, schema, path) ==
  IF schema.type \in {"any", "none"} THEN {}
  ELSE IF ~NodeIsOfType(node, schema.type) THEN {[path |-> path, kind |-> "expected"]}
  ELSE IF schema.type = "object"
    THEN {[path |-> PropertyPath(path, schema.schema.required[x]), kind |-> "missing"] :
            x \in {y \in 1..Len(schema.schema.required) :
                     schema.schema.required[y] \notin NodeKeys(node)}}
         \cup UNION {Mismatches(PropertyOf(node, schema.schema.properties[x].key),
                                schema.schema.properties[x].schema,
                                PropertyPath(path, schema.schema.properties[x].key)) :
                       x \in {y \in 1..Len(schema.schema.properties) :
                                schema.schema.properties[y].key \in NodeKeys(node)}}
  ELSE IF schema.type = "array" /\ schema.schema.items # <<>>
    THEN UNION {Mismatches(node.items[x], schema.schema.items[1], ItemPath(path, x)) :
                  x \in 1..Len(node.items)}
  ELSE {}

\* the errors of the result that report a missing key or a type mismatch
Reported(errors) ==
  SelectSeq(errors, LAMBDA e : e.message.kind \in {"missing", "expected"})

\* C17: validate returns valid exactly when errors is empty, and the errors
\* hold one entry, with its path, for every missing required key and every
\* type mismatch of the tree, and no other entry of these kinds
C17_ValidateExhaustive ==
  phase = "validated" =>
    /\ out.result.valid <=> out.result.errors = <<>>
    /\ {[path |-> Reported(out.result.errors)[x].path,
         kind |-> Reported(out.result.errors)[x].message.kind] :
           x \in 1..Len(Reported(out.result.errors))}
         = Mismatches(ast.node, out.schema, <<>>)
    /\ Len(Reported(out.result.errors))
         = Cardinality(Mismatches(ast.node, out.schema, <<>>))

\* a missing key, a mismatch in a sibling property and a mismatch below it
\* are all reported
C17_Witness ==
  /\ phase = "validated"
  /\ Len(out.result.errors) = 3
  /\ {out.result.errors[x].path : x \in 1..3} = {<<"b">>, <<"a", ".", "a">>, <<"a", ".", "b">>}
  /\ ~out.result.valid

(***************************************************************************)
(* ASTs with comments handed to encodeAST                                  *)
(***************************************************************************)
MaxCommentLines == 2

\* no comment, or one to MaxCommentLines lines " c"
LeadingComments ==
  {Join([x \in 1..n |-> <<SP, "c">>], <<NL>>) : n \in 0..MaxCommentLines}

InlineComments == {<<>>, <<SP, "i">>}

Commented(nodes) ==
  {[node EXCEPT !.leadingComment = lead, !.inlineComment = inl] :
     node \in nodes, lead \in LeadingComments, inl \in InlineComments}

CommentedLeaves ==
  Commented({PrimitiveNode("string", <<"x">>, FALSE, 1, 1),
             PrimitiveNode("number", JNum(1, 0).n, FALSE, 1, 1),
             NullNode(1, 1)})

\* objects of one or two inline properties
FlatCommentedObjects ==
  {ObjectNode(<<[key |-> <<"a">>, value |-> x]>>, 1, 1) : x \in CommentedLeaves}
    \cup {ObjectNode(<<[key |-> <<"a">>, value |-> xy[1]], [key |-> <<"b">>, value |-> xy[2]]>>,
                     1, 1) : xy \in CommentedLeaves \X CommentedLeaves}

\* leaves, flat objects, and a commented one-property object or one-item
\* array under the key k
CommentedNodes ==
  CommentedLeaves \cup FlatCommentedObjects
    \cup {ObjectNode(<<[key |-> <<"k">>, value |-> v]>>, 1, 1) :
            v \in Commented({ObjectNode(<<[key |-> <<"a">>, value |-> x]>>, 1, 1) :
                               x \in CommentedLeaves})}
    \cup {ObjectNode(<<[key |-> <<"k">>, value |-> v]>>, 1, 1) :
            v \in Commented({ArrayNode(<<x>>, "dash", 1, 1) : x \in CommentedLeaves})}

\* encodeAST(ast, {preserveComments}); out keeps the option next to the text
EncodeAST ==
  /\ phase = "parsed"
  /\ ast.st = "ok"
  /\ \E preserveComments \in BOOLEAN :
       out' = [preserveComments |-> preserveComments,
               result |-> encodeAST(ast.node, [DEFAULT_OPTIONS EXCEPT
                                                 !.preserveComments = preserveComments])]
  /\ phase' = "astEncoded"
  /\ UNCHANGED <<jsValue, text, ast, shared>>

InitComments ==
  /\ jsValue = Unset
  /\ text = Unset
  /\ ast \in {[st |-> "ok", node |-> node] : node \in CommentedNodes}
  /\ out = Unset
  /\ shared = Shared(NoOptions, NoOptions)
  /\ phase = "parsed"

NextComments == EncodeAST

SpecComments == InitComments /\ [][NextComments]_vars

\* the node with every comment field removed, at every depth
RECURSIVE Stripped(_)
Stripped(node) ==
  LET bare == [node EXCEPT !.leadingComment = <<>>, !.inlineComment = <<>>]
  IN IF node.type = "object"
       THEN [bare EXCEPT !.properties =
               [x \in 1..Len(node.properties) |->
                  [key |-> node.properties[x].key,
                   value |-> Stripped(node.properties[x].value)]]]
     ELSE IF node.type = "array"
       THEN [bare EXCEPT !.items = [x \in 1..Len(node.items) |-> Stripped(node.items[x])]]
     ELSE bare

\* the text without comments
StrippedText(node) ==
  encodeAST(Stripped(node), [DEFAULT_OPTIONS EXCEPT !.preserveComments = FALSE]).text

IsInlineNode(node) == node.type \in {"primitive", "null"}

\* the comment marks a property value or an item calls for: one per line
\* of its leading comment and one for the inline comment of an inline value
MarksOf(node) ==
  (IF node.leadingComment # <<>> THEN Len(Split(node.leadingComment, NL)) ELSE 0)
  + (IF node.inlineComment # <<>> /\ IsInlineNode(node) THEN 1 ELSE 0)

RECURSIVE SumOf(_)
SumOf(ns) == IF ns = <<>> THEN 0 ELSE Head(ns) + SumOf(Tail(ns))

\* the marks of all the property values and items below the node
RECURSIVE MarksBelow(_)
MarksBelow(node) ==
  IF node.type = "object"
    THEN SumOf([x \in 1..Len(node.properties) |->
                  MarksOf(node.properties[x].value) + MarksBelow(node.properties[x].value)])
  ELSE IF node.type = "array"
    THEN SumOf([x \in 1..Len(node.items) |->
                  MarksOf(node.items[x]) + MarksBelow(node.items[x])])
  ELSE 0

HashCount(txt) == Cardinality({x \in 1..Len(txt) : txt[x] = "#"})

\* the lines of an object of inline properties when comments are kept: before
\* each property line the lines of its leading comment, each after "#", and
\* at its end " #" and the inline comment
RECURSIVE CommentedLines(_, _)
CommentedLines(properties, bareLines) ==
  IF properties = <<>> THEN <<>>
  ELSE LET v == properties[1].value
       IN (IF v.leadingComment # <<>>
             THEN [x \in 1..Len(Split(v.leadingComment, NL)) |->
                     <<"#">> \o Split(v.leadingComment, NL)[x]]
             ELSE <<>>)
          \o <<bareLines[1] \o (IF v.inlineComment # <<>>
                                  THEN <<SP, "#">> \o v.inlineComment ELSE <<>>)>>
          \o CommentedLines(Tail(properties), Tail(bareLines))

\* C18: encodeAST emits comment text exactly when preserveComments is true.
\* With false the text is the text of the AST without its comments and holds
\* no "#".  With true the text holds one "#" for every line of a leading
\* comment of a property value or item and for every inline comment of an
\* inline value, and for an object of inline properties the leading comment
\* lines stand before the property line and the inline comment ends it.
C18_CommentsIffPreserved ==
  phase = "astEncoded" =>
    /\ out.result.st = "ok"
    /\ ~out.preserveComments =>
         /\ out.result.text = StrippedText(ast.node)
         /\ HashCount(out.result.text) = 0
    /\ out.preserveComments =>
         /\ HashCount(out.result.text) = MarksBelow(ast.node)
         /\ ast.node \in FlatCommentedObjects =>
              Split(out.result.text, NL)
                = CommentedLines(ast.node.properties, Split(StrippedText(ast.node), NL))

\* a two-line leading comment and an inline comment come out around a: x
C18_Witness ==
  /\ phase = "astEncoded"
  /\ out.preserveComments
  /\ out.result.st = "ok"
  /\ out.result.text = <<"#", SP, "c", NL, "#", SP, "c", NL,
                          "a", ":", SP, "x", SP, "#", SP, "i">>

(***************************************************************************)
(* decode with options                                                     *)
(***************************************************************************)
\* the options a caller passes: each of the two either left out or given
DecodeOptionSets ==
  UNION {[names -> BOOLEAN] : names \in SUBSET {"coerceNumbers", "coerceBooleans"}}

\* decode(text, options); out keeps the options next to the result
Decode ==
  /\ phase = "encoded"
  /\ text.st = "ok"
  /\ \E options \in DecodeOptionSets :
       out' = [options |-> options, result |-> decode(text.text, options)]
  /\ phase' = "decodedWith"
  /\ UNCHANGED <<jsValue, text, ast, shared>>

NextDecode == Decode

SpecDecode == InitValues /\ [][NextDecode]_vars

\* the value decode returned under the key k
DecodedValue == Field(out.result.value, <<"k">>)

\* the option as decode is to see it: the given value, or true
OptionOf(options, name) == IF name \in DOMAIN options THEN options[name] ELSE TRUE

\* C19: a numeric token that fits a double is returned as a number when
\* coerceNumbers is true or left out and as the string of its text when it
\* is false; true and false are returned as booleans when coerceBooleans is
\* true or left out and as strings when it is false
C19_DecodeOptions ==
  (phase = "decodedWith" /\ out.result.st = "ok" /\ IsValueLine(text.text)) =>
    LET v == SubSeq(text.text, 4, Len(text.text))
    IN /\ (IsNumeral(v) /\ IsFiniteNumber(NumberOfParts(NumScan(v)))) =>
            IF OptionOf(out.options, "coerceNumbers")
              THEN DecodedValue.k = "number"
              ELSE DecodedValue = JStr(v)
       /\ v \in {<<"t", "r", "u", "e">>, <<"f", "a", "l", "s", "e">>} =>
            IF OptionOf(out.options, "coerceBooleans")
              THEN DecodedValue = JBool(v = <<"t", "r", "u", "e">>)
              ELSE DecodedValue = JStr(v)

(***************************************************************************)
(* encode with the newline option                                          *)
(***************************************************************************)
CRLF == <<CR, NL>>

CRLFOptions == [DEFAULT_OPTIONS EXCEPT !.newline = CRLF]

\* encode(value, {newline}): the line terminator is the default or CRLF
EncodeWithNewline ==
  /\ phase = "value"
  /\ \E newline \in {DEFAULT_OPTIONS.newline, CRLF} :
       text' = encode(ValueOf(jsValue), [DEFAULT_OPTIONS EXCEPT !.newline = newline])
  /\ phase' = "encoded"
  /\ UNCHANGED <<jsValue, ast, out, shared>>

NextNewline == EncodeWithNewline \/ Parse \/ AstToJS

SpecNewline == Init /\ [][NextNewline]_vars

\* the text in hand was written with CRLF
WrittenWithCRLF == text.st = "ok" /\ text = encode(jsValue, CRLFOptions)

\* decode(encode(v)) with the default line terminator
PlainDecoded == decode(encode(jsValue, DEFAULT_OPTIONS).text, <<>>)

\* C20: a text written with CRLF is read like the text written with the
\* default terminator: parse ends the same way, and the decoded value equals
\* decode(encode(v))
C20_CRLFReadable ==
  /\ (phase \in {"parsed", "parsing"} /\ WrittenWithCRLF) => ast.st = PlainDecoded.st
  /\ (phase = "decoded" /\ WrittenWithCRLF) =>
       PlainDecoded.st = "ok" /\ JEq(out, PlainDecoded.value)

(***************************************************************************)
(* Deeply nested objects                                                   *)
(***************************************************************************)
MaxNesting == 12

\* the indentation widths of one level
IndentWidths == {1, 2, 4}

\* the key of level x: level1 .. level12 and on
LevelKey(x) == <<"l", "e", "v", "e", "l">> \o IntToDigits(x)

\* the lines level1: .. leveld:, each one level deeper, then value: done
NestedLines(d, width) ==
  [x \in 1..(d + 1) |->
     Spaces((x - 1) * width)
       \o (IF x <= d THEN LevelKey(x) \o <<":">>
           ELSE <<"v", "a", "l", "u", "e", ":", SP, "d", "o", "n", "e">>)]

NestedDocument(d, width) == Join(NestedLines(d, width), <<NL>>)

NestedDocuments ==
  {NestedDocument(d, width) \o end :
     d \in 1..MaxNesting, width \in IndentWidths, end \in {<<>>, <<NL>>}}

InitNested ==
  /\ phase = "encoded"
  /\ jsValue = Unset
  /\ text \in {OkText(doc) : doc \in NestedDocuments}
  /\ ast = Unset
  /\ out = Unset
  /\ shared = Shared(NoOptions, NoOptions)

SpecNested == InitNested /\ [][NextParse]_vars

\* the depth d of a nested document: its lines less the value line
NestingOf(doc) ==
  Len(SelectSeq(Split(doc, <<NL>>[1]), LAMBDA l : l # <<>>)) - 1

\* the node reached from node by the keys levelx .. leveld in turn, each
\* found in an object that holds nothing else
RECURSIVE Descend(_, _, _)
Descend(node, x, d) ==
  IF x > d THEN node
  ELSE IF node.type = "object" /\ NodeKeys(node) = {LevelKey(x)}
    THEN Descend(PropertyOf(node, LevelKey(x)), x + 1, d)
  ELSE [type |-> "unreachable"]

\* the plain value {level1: {... {value: "done"}}} from level x on
RECURSIVE NestedValue(_, _)
NestedValue(x, d) ==
  IF x > d THEN JObj(<<[key |-> <<"v", "a", "l", "u", "e">>, val |-> JStr(<<"d", "o", "n", "e">>)]>>)
  ELSE JObj(<<[key |-> LevelKey(x), val |-> NestedValue(x + 1, d)]>>)

\* C21: a document of d nested key lines and a value: done line parses to a
\* chain of d objects, each reached by the key of its level, and the
\* innermost object holds value, the string done
C21_DeepNesting ==
  /\ phase \in {"parsed", "parsing"} =>
       /\ ast.st = "ok"
       /\ LET inner == Descend(ast.node, 1, NestingOf(text.text))
          IN /\ inner.type = "object"
             /\ NodeKeys(inner) = {<<"v", "a", "l", "u", "e">>}
             /\ PropertyOf(inner, <<"v", "a", "l", "u", "e">>).type = "primitive"
             /\ PropertyOf(inner, <<"v", "a", "l", "u", "e">>).primitiveType = "string"
             /\ PropertyOf(inner, <<"v", "a", "l", "u", "e">>).value = <<"d", "o", "n", "e">>
  /\ phase = "decoded" => out = NestedValue(1, NestingOf(text.text))

\* the document of the deepest nesting has been parsed and converted
C21_Witness ==
  /\ phase = "decoded"
  /\ text.text = NestedDocument(MaxNesting, 2)
  /\ out = NestedValue(1, MaxNesting)

(***************************************************************************)
(* Node positions                                                          *)
(***************************************************************************)
\* the lines a: |   b: 1 |   - |   - 2 | - | c: [1, null] | - k: "q"
PositionLines ==
  { <<"a", ":">>,
    <<SP, SP, "b", ":", SP, "1">>,
    <<SP, SP, "-">>,
    <<SP, SP, "-", SP, "2">>,
    <<"-">>,
    <<"c", ":", SP, "[", "1", ",", SP, "n", "u", "l", "l", "]">>,
    <<"-", SP, "k", ":", SP, DQ, "q", DQ>> }

PositionDocuments ==
  { Join(ls, <<NL>>) : ls \in SeqsUpTo(PositionLines, MaxLines) \ {<<>>} }

InitPositions ==
  /\ phase = "encoded"
  /\ jsValue = Unset
  /\ text \in { OkText(d) : d \in PositionDocuments \cup TableDocuments }
  /\ ast = Unset
  /\ out = Unset
  /\ shared = Shared(NoOptions, NoOptions)

SpecPositions == InitPositions /\ [][NextParse]_vars

\* the node and every node below it
RECURSIVE NodesOf(_)
NodesOf(node) ==
  {node} \cup
    (IF node.type = "object"
       THEN UNION { NodesOf(node.properties[x].value) : x \in 1..Len(node.properties) }
     ELSE IF node.type = "array"
       THEN UNION { NodesOf(node.items[x]) : x \in 1..Len(node.items) }
     ELSE {})

\* C22: every node of an AST that parse returned has line >= 1 and
\* column >= 1
C22_NodePositions ==
  (phase \in {"parsed", "decoded"} /\ ast.st = "ok") =>
    \A n \in NodesOf(ast.node) : n.line >= 1 /\ n.column >= 1

IsEmptyObject(n) == n.type = "object" /\ n.properties = <<>>

\* an AST holding the empty object of a bare key and a multiline array
\* whose items stand on a later line than the array's key has been returned
C22_Witness ==
  /\ phase = "parsed"
  /\ ast.st = "ok"
  /\ \E n \in NodesOf(ast.node) :
       /\ n.type = "object"
       /\ \E x \in 1..Len(n.properties) : IsEmptyObject(n.properties[x].value)
  /\ \E n \in NodesOf(ast.node) :
       /\ n.type = "array"
       /\ n.format = "multiline"
       /\ \E x \in 1..Len(n.items) : n.items[x].line > 1 /\ n.items[x].column > 1

\* a compact array whose rows are objects has been returned
C22_WitnessRows ==
  /\ phase = "parsed"
  /\ ast.st = "ok"
  /\ \E n \in NodesOf(ast.node) :
       /\ n.type = "array"
       /\ n.format = "compact"
       /\ \E x \in 1..Len(n.items) : n.items[x].type = "object"

(***************************************************************************)
(* The quoted flag                                                         *)
(***************************************************************************)
\* the words a value is written with
QuotedWords == SeqsUpTo({"a", "b", "7"}, MaxWordLen) \ {<<>>}

\* no delimiter, or one of the two quote characters
Delimiters == {<<>>, <<DQ>>, <<SQ>>}

\* what stands before the value: k: | - | k: and a dash line | [
ValuePrefixes ==
  { <<"k", ":", SP>>,
    <<"-", SP>>,
    <<"k", ":", NL, SP, SP, "-", SP>>,
    <<"k", ":", SP, "[">> }

ValueDocument(prefix, delimiter, word) ==
  prefix \o delimiter \o word \o delimiter
    \o (IF prefix[Len(prefix)] = "[" THEN <<"]">> ELSE <<>>)

QuotedDocuments ==
  { ValueDocument(prefix, delimiter, word) :
      prefix \in ValuePrefixes, delimiter \in Delimiters, word \in QuotedWords }

InitQuoted ==
  /\ phase = "encoded"
  /\ jsValue = Unset
  /\ text \in { OkText(d) : d \in QuotedDocuments }
  /\ ast = Unset
  /\ out = Unset
  /\ shared = Shared(NoOptions, NoOptions)

SpecQuoted == InitQuoted /\ [][NextParse]_vars

\* the value of the document is written between quote characters
WrittenQuoted(doc) == doc[Len(doc)] \in {DQ, SQ} \/ doc[Len(doc) - 1] \in {DQ, SQ}

PrimitivesOf(node) == { n \in NodesOf(node) : n.type = "primitive" }

\* C23: the primitive node of a parsed value has quoted = TRUE exactly when
\* the value stood between quote characters in the source
C23_QuotedFlag ==
  (phase = "parsed" /\ ast.st = "ok") =>
    \A n \in PrimitivesOf(ast.node) : n.quoted <=> WrittenQuoted(text.text)

(***************************************************************************)
(* Calls in any order on the same objects                                  *)
(***************************************************************************)
\* { ...defaults, ...options }: a new object
Spread(defaults, options) ==
  [name \in DOMAIN defaults |->
     IF name \in DOMAIN options THEN options[name] ELSE defaults[name]]

\* the options objects a caller passes to encode and encodeAST
EncodeOptionSets ==
  { [name \in names |-> full[name]] :
      names \in {{}, {"indent"}, {"newline"}, {"preserveComments"}, {"indent", "newline"}},
      full \in {[indent |-> 4, newline |-> CRLF, preserveComments |-> FALSE]} }

SharedValues ==
  { JStr(<<"a">>),
    JObj(<<[key |-> <<"a">>, val |-> JNum(1, 0)], [key |-> <<"b">>, val |-> JNull]>>),
    JObj(<<[key |-> <<"a">>, val |-> JObj(<<[key |-> <<"b">>, val |-> JBool(TRUE)]>>)]>>),
    JArr(<<JNum(1, 0), JStr(<<"x">>)>>) }

\* a: 1 | a: and b: x # c below it | two dash lines | an array left open
SharedTexts ==
  { <<"a", ":", SP, "1">>,
    <<"a", ":", NL, SP, SP, "b", ":", SP, "x", SP, "#", SP, "c">>,
    <<"-", SP, "x", NL, "-", SP, "y">>,
    <<"a", ":", SP, "[">> }

InitShared ==
  /\ phase = "none"
  /\ jsValue \in SharedValues
  /\ text \in { OkText(t) : t \in SharedTexts }
  /\ ast \in { parse(t) : t \in SharedTexts }
  /\ out = Unset
  /\ shared \in { Shared(options, decodeOptions) :
                    options \in EncodeOptionSets, decodeOptions \in DecodeOptionSets }

\* encode merging the options into the module-level defaults, as
\* Object.assign(DEFAULT_OPTIONS, options) does
CallEncodeAssigning ==
  /\ out' = [call |-> "encode", after |-> phase,
             result |-> encode(ValueOf(jsValue),
                               Spread(shared.DEFAULT_OPTIONS, shared.options))]
  /\ phase' = "encode"
  /\ shared' = [shared EXCEPT !.DEFAULT_OPTIONS = Spread(@, shared.options)]
  /\ UNCHANGED <<jsValue, text, ast>>

\* encode(value, options)
CallEncode ==
  /\ out' = [call |-> "encode", after |-> phase,
             result |-> encode(ValueOf(jsValue),
                               Spread(shared.DEFAULT_OPTIONS, shared.options))]
  /\ phase' = "encode"
  /\ UNCHANGED <<jsValue, text, ast, shared>>

\* encodeAST(node, options)
CallEncodeAST ==
  /\ ast.st = "ok"
  /\ out' = [call |-> "encodeAST", after |-> phase,
             result |-> encodeAST(ast.node,
                                  Spread(shared.DEFAULT_OPTIONS, shared.options))]
  /\ phase' = "encodeAST"
  /\ UNCHANGED <<jsValue, text, ast, shared>>

\* parse(input)
CallParse ==
  /\ out' = [call |-> "parse", after |-> phase, result |-> parse(text.text)]
  /\ phase' = "parse"
  /\ UNCHANGED <<jsValue, text, ast, shared>>

\* decode(input, options)
CallDecode ==
  /\ out' = [call |-> "decode", after |-> phase,
             result |-> DecodeOf(parseWithOptions(text.text,
                          Spread(shared.DEFAULT_DECODE_OPTIONS, shared.decodeOptions)))]
  /\ phase' = "decode"
  /\ UNCHANGED <<jsValue, text, ast, shared>>

NextShared == CallEncode \/ CallEncodeAST \/ CallParse \/ CallDecode

SpecShared == InitShared /\ [][NextShared]_vars

\* what the call returns when it is the only call ever made: the defaults
\* are those of the module as loaded
Alone(call, value, input, node, options, decodeOptions) ==
  IF call = "encode" THEN encode(ValueOf(value), Spread(DEFAULT_OPTIONS, options))
  ELSE IF call = "encodeAST" THEN encodeAST(node.node, Spread(DEFAULT_OPTIONS, options))
  ELSE IF call = "parse" THEN parse(input.text)
  ELSE decode(input.text, decodeOptions)

MaxDashItems == 3

\* the inline primitives x | 7 | -7 | true | null
DashValues ==
  { <<"x">>, <<"7">>, <<"-", "7">>, <<"t", "r", "u", "e">>, <<"n", "u", "l", "l">> }

DashKey == <<"k">>

\* k: and one line "  - v" per value
DashDocument(values) ==
  Join(<<DashKey \o <<":">>>> \o [x \in 1..Len(values) |-> <<SP, SP, "-", SP>> \o values[x]],
       <<NL>>)

DashDocuments == { DashDocument(values) : values \in SeqsUpTo(DashValues, MaxDashItems) \ {<<>>} }

InitDash ==
  /\ phase = "encoded"
  /\ jsValue = Unset
  /\ text \in { OkText(d) : d \in DashDocuments }
  /\ ast = Unset
  /\ out = Unset
  /\ shared = Shared(NoOptions, NoOptions)

SpecDash == InitDash /\ [][NextParse]_vars

\* the values written on the dash lines of the document
DashValuesOf(doc) ==
  LET lines == Split(doc, NL)
  IN [x \in 1..(Len(lines) - 1) |-> Slice(lines[x + 1], 5, Len(lines[x + 1]))]

\* the node is the primitive or null that v is read as
IsItemOf(node, v) == node = PrimitiveOf(v, parseNumber(v), node.line, node.column)

\* C25: N dash lines under k: parse to a multiline array of N items, item x
\* being the value of line x with its inferred type
C25_DashArrays ==
  phase \in {"parsed", "parsing"} =>
    /\ ast.st = "ok"
    /\ ast.node.type = "object"
    /\ NodeKeys(ast.node) = {DashKey}
    /\ LET array == PropertyOf(ast.node, DashKey)
           values == DashValuesOf(text.text)
       IN /\ array.type = "array"
          /\ array.format = "multiline"
          /\ Len(array.items) = Len(values)
          /\ \A x \in 1..Len(values) : IsItemOf(array.items[x], values[x])

\* a document none of whose items is a number without a sign
NoBareNumber == \A x \in 1..Len(DashValuesOf(text.text)) : DashValuesOf(text.text)[x] # <<"7">>

C25_DashArraysSigned == NoBareNumber => C25_DashArrays

(***************************************************************************)
(* Re-encoding an AST                                                      *)
(***************************************************************************)
MaxBlocks == 2

\* the blocks a: x | n: and m: y below it | e: | i: [x, y] | z: [] |
\* d: and two dash lines | t[1]{x}: and one row
ContentBlocks ==
  { <<"a", ":", SP, "x">>,
    <<"n", ":", NL, SP, SP, "m", ":", SP, "y">>,
    <<"e", ":">>,
    <<"i", ":", SP, "[", "x", ",", SP, "y", "]">>,
    <<"z", ":", SP, "[", "]">>,
    <<"d", ":", NL, SP, SP, "-", SP, "x", NL, SP, SP, "-", SP, "y">>,
    <<"t", "[", "1", "]", "{", "x", "}", ":", NL, SP, SP, "x", ":", SP, "v">> }

\* texts of one block, of two blocks, and of a block nested under o:
ContentDocuments ==
  { Join(bs, <<NL>>) : bs \in SeqsUpTo(ContentBlocks, MaxBlocks) \ {<<>>} }

InitContent ==
  /\ phase = "encoded"
  /\ jsValue = Unset
  /\ text \in { OkText(d) : d \in ContentDocuments }
  /\ ast = Unset
  /\ out = Unset
  /\ shared = Shared(NoOptions, NoOptions)

NextContent == Parse \/ EncodeAST

SpecContent == InitContent /\ [][NextContent]_vars

\* C26: the text encodeAST writes for a parsed AST with the default options
\* parses, and decodes to the value the AST stands for
C26_ReencodeKeepsData ==
  (phase = "astEncoded" /\ out.preserveComments) =>
    /\ out.result.st = "ok"
    /\ decode(out.result.text, NoOptions).st = "ok"
    /\ JEq(decode(out.result.text, NoOptions).value, astToJS(ast.node))

(***************************************************************************)
(* One NEWLINE per line feed                                               *)
(***************************************************************************)
\* how many positions of the sequence satisfy the test
CountOf(seq, Test(_)) == Cardinality({x \in 1..Len(seq) : Test(seq[x])})

IsLineFeed(char) == char = NL

IsNewlineToken(token) == token.type = "NEWLINE"

IsQuoteChar(char) == char \in {DQ, SQ}

\* C27: for an input without quote characters, where every line feed lies
\* outside a quoted string and a comment ends before its line feed, the
\* tokens hold one NEWLINE per line feed
C27_NewlinePerLineFeed ==
  (phase = "tokenized" /\ out.st = "ok" /\ CountOf(text.text, IsQuoteChar) = 0) =>
    CountOf(out.tokens, IsNewlineToken) = CountOf(text.text, IsLineFeed)

(***************************************************************************)
(* Escapes written and read back                                           *)
(***************************************************************************)
EscapeChars == {BS, DQ, SQ, NL, CR, TAB, SP, "n", "a"}

EscapeStrings == SeqsUpTo(EscapeChars, MaxStringLen)

InitEscape ==
  /\ phase = "value"
  /\ jsValue \in { JStr(str) : str \in EscapeStrings }
  /\ text = Unset
  /\ ast = Unset
  /\ out = Unset
  /\ shared = Shared(NoOptions, NoOptions)

\* the text `"${escapeString(value)}"`
EscapeString ==
  /\ phase = "value"
  /\ jsValue.k = "string"
  /\ text' = OkText(<<DQ>> \o escapeString(jsValue.s) \o <<DQ>>)
  /\ phase' = "encoded"
  /\ UNCHANGED <<jsValue, ast, out, shared>>

NextEscape == EscapeString \/ Tokenize

SpecEscape == InitEscape /\ [][NextEscape]_vars

\* C28: the tokens of a double quote, escapeString(s) and a double quote
\* are one VALUE token holding s, and EOF
C28_EscapeRoundTrip ==
  phase = "tokenized" =>
    /\ out.st = "ok"
    /\ Len(out.tokens) = 2
    /\ out.tokens[1].type = "VALUE"
    /\ out.tokens[1].value = jsValue.s
    /\ out.tokens[2].type = "EOF"

\* a string holding a backslash, a double quote and a line feed has been
\* read back
C28_Witness ==
  /\ phase = "tokenized"
  /\ jsValue.s = <<BS, DQ, NL>>
  /\ text.text = <<DQ, BS, BS, BS, DQ, BS, "n", DQ>>
  /\ out.st = "ok"
  /\ out.tokens[1].value = <<BS, DQ, NL>>

(***************************************************************************)
(* Documents with and without their comments                               *)
(***************************************************************************)
\* the lines a: | a: # c |   b: 1 |   b: 1 # c | d: 3 | # c |   # c |
\*     # c (four blanks)
CommentDocLines ==
  { <<"a", ":">>,
    <<"a", ":", SP, "#", SP, "c">>,
    <<SP, SP, "b", ":", SP, "1">>,
    <<SP, SP, "b", ":", SP, "1", SP, "#", SP, "c">>,
    <<"d", ":", SP, "3">>,
    <<"#", SP, "c">>,
    <<SP, SP, "#", SP, "c">>,
    <<SP, SP, SP, SP, "#", SP, "c">> }

CommentDocuments ==
  { Join(ls, <<NL>>) : ls \in SeqsUpTo(CommentDocLines, MaxLines) \ {<<>>} }

InitCommentDocs ==
  /\ phase = "encoded"
  /\ jsValue = Unset
  /\ text \in { OkText(d) : d \in CommentDocuments }
  /\ ast = Unset
  /\ out = Unset
  /\ shared = Shared(NoOptions, NoOptions)

SpecCommentDocs == InitCommentDocs /\ [][NextParse]_vars

\* the line up to its comment sign, blanks before the sign dropped
WithoutTail(line) ==
  LET p == IndexOf(line, "#", 1)
  IN IF p = 0 THEN line ELSE TrimEnd(Slice(line, 1, p - 1))

\* the document with every comment deleted: a line that is a comment only
\* goes with its line break, a tail goes with the blanks before it
WithoutComments(doc) ==
  LET lines == Split(doc, NL)
      kept == SelectSeq(lines, LAMBDA l : IndexOf(l, "#", 1) = 0 \/ WithoutTail(l) # <<>>)
  IN Join([x \in 1..Len(kept) |-> WithoutTail(kept[x])], <<NL>>)

HasComment(doc) == IndexOf(doc, "#", 1) # 0

\* C29: when a document parses, the document without its comments parses
\* too, and both decode to the same value
C29_CommentsCarryNoData ==
  (phase = "decoded" /\ HasComment(text.text)) =>
    LET plain == decode(WithoutComments(text.text), NoOptions)
    IN plain.st = "ok" /\ JEq(plain.value, out)

(***************************************************************************)
(* Blank lines between the lines of a document                             *)
(***************************************************************************)
\* the lines a: |   b: 1 |   - x | d: 3 |     c: 2 | t[1]{x}: |   x: 1
BlankDocLines ==
  { <<"a", ":">>,
    <<SP, SP, "b", ":", SP, "1">>,
    <<SP, SP, "-", SP, "x">>,
    <<"d", ":", SP, "3">>,
    <<SP, SP, SP, SP, "c", ":", SP, "2">>,
    <<"t", "[", "1", "]", "{", "x", "}", ":">>,
    <<SP, SP, "x", ":", SP, "1">> }

BlankDocuments ==
  { Join(ls, <<NL>>) : ls \in SeqsUpTo(BlankDocLines, MaxLines) \ {<<>>} }

InitBlankDocs ==
  /\ phase = "encoded"
  /\ jsValue = Unset
  /\ text \in { OkText(d) : d \in BlankDocuments }
  /\ ast = Unset
  /\ out = Unset
  /\ shared = Shared(NoOptions, NoOptions)

SpecBlankDocs == InitBlankDocs /\ [][NextParse]_vars

\* the document with an empty line put in after its line x
WithBlankAfter(doc, x) ==
  LET lines == Split(doc, NL)
  IN Join(SubSeq(lines, 1, x) \o << <<>> >> \o SubSeq(lines, x + 1, Len(lines)), <<NL>>)

LineCount(doc) == Len(Split(doc, NL))

\* C30: when a document parses, the document with an empty line between
\* two of its consecutive lines parses to the same decoded value
C30_BlankLinesNoStructure ==
  phase = "decoded" =>
    \A x \in 1..(LineCount(text.text) - 1) :
      LET spaced == decode(WithBlankAfter(text.text, x), NoOptions)
      IN spaced.st = "ok" /\ JEq(spaced.value, out)
====
